---- MODULE Spec2Model ----
(***************************************************************************)
(* Cadastral backend (catastro-sp-module-nekazari): the parcel store and   *)
(* its REST handlers, the Orion-LD synchronization, the two authentication *)
(* decorators and the coordinate lookup with its Redis cache.              *)
(*                                                                         *)
(* Five specifications share the variables below:                          *)
(*   Spec        the parcel store under the CRUD handlers;                 *)
(*   SpecNdvi    the single and batch NDVI job requests;                   *)
(*   SpecNotify  the synchronization functions and the /notify webhook;    *)
(*   SpecAuth    the two route decorators applied to every request shape;  *)
(*   SpecLookup  the coordinate lookup with the cache service.             *)
(***************************************************************************)
EXTENDS Integers, Sequences, FiniteSets, TLC

VARIABLES
    rows,        \* table cadastral_parcels: sequence of rows, id = index
    now,         \* the store's clock, as read by NOW() and column defaults
    rlsEnforced, \* whether the store applies a tenant policy to this role
    resp,        \* the last HTTP response (or function result) produced
    auth,        \* SpecAuth: the last decorated call and its outcome
    redis,       \* the cache backend's keys: coordinate key -> payload
    redisUp,     \* whether the cache backend answers
    available,   \* CadastralCache._available, fixed at construction
    clients,     \* whether region_router and catastro_clients were imported
    request,     \* the JSON body of the request being answered
    trace,       \* the collaborators the handler called, in order
    threads,     \* the requests served concurrently: position and locals
    instances    \* the module globals _router_instance and _cache_instance

vars == <<rows, now, rlsEnforced, resp, auth, redis, redisUp, available, clients,
                 request, trace, threads, instances>>

None == "None"

\* ------------------------------------------------------------------ bounds
MaxRows == 2
MaxClock == 3
MaxBatch == 3
MaxEntities == 2

Tenants == {"ta", "tb"}
CropTypes == {"wheat", "corn"}

\* Python truthiness of an optional string
Truthy(x) == x # None /\ x # ""

\* c or b or a: the claims read in the opposite order
Or3Reversed(a, b, c) == IF Truthy(c) THEN c ELSE IF Truthy(b) THEN b ELSE a

\* a or b or c
Or3(a, b, c) == IF Truthy(a) THEN a ELSE IF Truthy(b) THEN b ELSE c

\* ---------------------------------------------------------- authentication
\* A bearer token as the decoders see it: whether it parses, whether it is
\* expired, whether its signature is the identity provider's, and its claims
\* tenant-id (c1), tenant_id (c2), tenant (c3) and groups. Each claim and the
\* X-Tenant-ID header name a tenant of their own, so that the source of a
\* resolved tenant can be told.
TokenKinds == {"valid", "expired", "garbage", "forged"}

Groups == {<<>>, <<"default">>, <<"tenant_admins", "/tb">>}

Tokens ==
    [kind : TokenKinds \ {"garbage"}, c1 : {None, "", "t1"}, c2 : {None, "t2"},
     c3 : {None, "t3"}, groups : Groups]
    \cup {[kind |-> "garbage", c1 |-> None, c2 |-> None, c3 |-> None,
           groups |-> <<>>]}

\* authz: the Authorization header; xTenant: X-Tenant-ID; sig: X-Auth-Signature
Requests ==
    [authz : {"absent", "malformed", "bearer"}, token : Tokens,
     xTenant : {None, "", "tx"}, sig : {"absent", "good", "bad"}]

\* jwt.decode(token, options={"verify_signature": False, "verify_exp": True})
DecodeUnverified(token) ==
    CASE token.kind = "garbage" -> "DecodeError"
      [] token.kind = "expired" -> "ExpiredSignatureError"
      [] OTHER -> "ok"

Rejected(status, error) ==
    [ran |-> FALSE, status |-> status, error |-> error, tenant |-> None,
     verified |-> FALSE]

Accepted(tenant, verified) ==
    [ran |-> TRUE, status |-> 0, error |-> None, tenant |-> tenant,
     verified |-> verified]

\* auth_middleware.require_auth: the outcome of the decorator for a request
require_auth(req) ==
    IF req.authz # "bearer"
    THEN Rejected(401, "Missing or invalid authorization header")
    ELSE LET d == DecodeUnverified(req.token) IN
         IF d = "ExpiredSignatureError"
         THEN Rejected(401, "Token has expired")
         ELSE IF d # "ok"
         THEN Rejected(500, "Authentication error")
         ELSE LET tenant_id ==
                      IF Truthy(req.xTenant) THEN req.xTenant
                      ELSE Or3(req.token.c1, req.token.c2, req.token.c3)
              IN IF ~Truthy(tenant_id)
                 THEN Rejected(401, "Tenant ID not found")
                 ELSE Accepted(tenant_id, FALSE)

\* keycloak_auth.validate_keycloak_token: "ok" or the TokenValidationError
validate_keycloak_token(token) ==
    CASE token.kind = "valid" -> "ok"
      [] token.kind = "expired" -> "Token has expired"
      [] token.kind = "forged" -> "Invalid token signature"
      [] OTHER -> "Unexpected error"

\* the group filter of extract_tenant_id
GroupName(g) == IF g = "/tb" THEN "tb" ELSE g

GroupSkipped(g) == GroupName(g) \in {"default", "offline_access",
                                     "uma_authorization", "tenant_admins"}

RECURSIVE FirstTenantGroup(_)
FirstTenantGroup(gs) ==
    IF gs = <<>> THEN None
    ELSE IF GroupSkipped(Head(gs)) THEN FirstTenantGroup(Tail(gs))
    ELSE GroupName(Head(gs))

\* keycloak_auth.extract_tenant_id (the tenants of the model are normalized)
extract_tenant_id(token) ==
    LET claimed == Or3(token.c1, token.c2, token.c3) IN
    IF Truthy(claimed) THEN claimed ELSE FirstTenantGroup(token.groups)

\* keycloak_auth.verify_hmac_signature
verify_hmac_signature(sig, secret) ==
    IF sig = "absent" \/ ~secret THEN TRUE ELSE sig = "good"

\* a decorator that takes the tenant header whatever TRUST_API_GATEWAY says
require_keycloak_auth_header_first(req, trust, secret) ==
    IF req.authz # "bearer"
    THEN Rejected(401, "Missing or invalid authorization header")
    ELSE LET first ==
                 IF Truthy(req.xTenant)
                 THEN LET d == DecodeUnverified(req.token) IN
                      IF d = "ExpiredSignatureError"
                      THEN Rejected(401, "Token has expired")
                      ELSE IF d # "ok" THEN Rejected(401, "Invalid token")
                      ELSE Accepted(req.xTenant, FALSE)
                 ELSE LET v == validate_keycloak_token(req.token) IN
                      IF v # "ok" THEN Rejected(401, v)
                      ELSE LET t == extract_tenant_id(req.token) IN
                           IF ~Truthy(t)
                           THEN Rejected(401, "Tenant ID not found in token")
                           ELSE Accepted(t, TRUE)
         IN IF ~first.ran THEN first
            ELSE IF req.sig # "absent" /\ ~verify_hmac_signature(req.sig, secret)
            THEN Rejected(401, "Invalid HMAC signature")
            ELSE first

\* keycloak_auth.require_keycloak_auth
require_keycloak_auth(req, trust, secret) ==
    IF req.authz # "bearer"
    THEN Rejected(401, "Missing or invalid authorization header")
    ELSE LET first ==
                 IF trust /\ Truthy(req.xTenant)
                 THEN LET d == DecodeUnverified(req.token) IN
                      IF d = "ExpiredSignatureError"
                      THEN Rejected(401, "Token has expired")
                      ELSE IF d # "ok" THEN Rejected(401, "Invalid token")
                      ELSE Accepted(req.xTenant, FALSE)
                 ELSE LET v == validate_keycloak_token(req.token) IN
                      IF v # "ok" THEN Rejected(401, v)
                      ELSE LET t == extract_tenant_id(req.token) IN
                           IF ~Truthy(t)
                           THEN Rejected(401, "Tenant ID not found in token")
                           ELSE Accepted(t, TRUE)
         IN IF ~first.ran THEN first
            ELSE IF req.sig # "absent" /\ ~verify_hmac_signature(req.sig, secret)
            THEN Rejected(401, "Invalid HMAC signature")
            ELSE first

NoAuth == [mw |-> None]

CallRequireAuth(req) ==
    /\ auth' = [mw |-> "require_auth", req |-> req, trust |-> TRUE,
                secret |-> FALSE, res |-> require_auth(req)]
    /\ UNCHANGED <<rows, now, rlsEnforced, resp, redis, redisUp, available, clients,
                 request, trace,
                 threads, instances>>

CallRequireKeycloakAuth(req, trust, secret) ==
    /\ auth' = [mw |-> "require_keycloak_auth", req |-> req, trust |-> trust,
                secret |-> secret,
                res |-> require_keycloak_auth(req, trust, secret)]
    /\ UNCHANGED <<rows, now, rlsEnforced, resp, redis, redisUp, available, clients,
                 request, trace,
                 threads, instances>>

\* ------------------------------------------------------------ parcel store
Absent == "absent"

PIds == 1..(MaxRows + 1)

\* Row-level security of the store: a policy keyed on the session setting
\* app.current_tenant hides the rows of other tenants, when it is in force for
\* the connecting role (superusers and table owners bypass it).
RowVisible(r, ctx) == ~rlsEnforced \/ r.tenant_id = ctx

\* column defaults of cadastral_parcels used by an INSERT that omits them
ColumnDefaults(t) ==
    [ndvi_enabled |-> TRUE, is_active |-> TRUE, updated_at |-> t]

Exists(rs, id) == id \in 1..Len(rs)

\* SELECT ... FROM cadastral_parcels WHERE id = %s (get_parcel, request-ndvi)
SelectById(rs, id, ctx) ==
    IF Exists(rs, id) /\ RowVisible(rs[id], ctx) THEN id ELSE 0

\* SELECT ... WHERE tenant_id = %s AND is_active = true ORDER BY created_at DESC
RECURSIVE SelectActiveOfTenant(_, _, _)
SelectActiveOfTenant(rs, tenant, n) ==
    IF n = 0 THEN <<>>
    ELSE IF rs[n].tenant_id = tenant /\ rs[n].is_active
         THEN <<n>> \o SelectActiveOfTenant(rs, tenant, n - 1)
         ELSE SelectActiveOfTenant(rs, tenant, n - 1)

\* the same query without its ndvi_enabled condition
SelectAnyForNdvi(rs, ids, ctx) ==
    {id \in 1..Len(rs) :
        /\ \E i \in 1..Len(ids) : ids[i] = id
        /\ RowVisible(rs[id], ctx)}

\* SELECT id ... WHERE id = ANY(%s) AND ndvi_enabled = true
SelectValidForNdvi(rs, ids, ctx) ==
    {id \in 1..Len(rs) :
        /\ \E i \in 1..Len(ids) : ids[i] = id
        /\ rs[id].ndvi_enabled
        /\ RowVisible(rs[id], ctx)}

\* the row a handler returns as JSON
RowJson(rs, id) ==
    [id |-> id, tenant_id |-> rs[id].tenant_id, crop_type |-> rs[id].crop_type,
     ndvi_enabled |-> rs[id].ndvi_enabled, is_active |-> rs[id].is_active,
     updated_at |-> rs[id].updated_at]

\* one HTTP response: what was called, by whom, the status, the JSON body, the
\* parcels forwarded to the entity-manager, and whether the handler returned
\* with its store connection still open
R(op, caller, pid, status, body, sent, connOpen) ==
    [op |-> op, caller |-> caller, pid |-> pid, status |-> status,
     body |-> body, sent |-> sent, connOpen |-> connOpen]

AuthReject(op, a) == R(op, None, 0, a.status, a.error, <<>>, FALSE)

\* requests the store specification sends: a gateway-validated call of tenant
\* ta, a call of tenant tb named by a token claim, and one with no credentials
GoodToken(c) ==
    [kind |-> "valid", c1 |-> None, c2 |-> c, c3 |-> None, groups |-> <<>>]

RestRequests ==
    {[authz |-> "bearer", token |-> GoodToken(None), xTenant |-> "ta",
      sig |-> "absent"],
     [authz |-> "bearer", token |-> GoodToken("tb"), xTenant |-> None,
      sig |-> "absent"],
     [authz |-> "absent", token |-> GoodToken(None), xTenant |-> None,
      sig |-> "absent"]}

\* what the store does to one handler call
DbOutcomes == {"ok", "connect_fail", "query_fail"}

DbFailed(op, tenant, db) ==
    R(op, tenant, 0, 500, "Internal server error", <<>>, db = "query_fail")

\* ---- GET /parcels
list_parcels(req, db) ==
    LET a == require_auth(req) IN
    /\ resp' = IF ~a.ran THEN AuthReject("list_parcels", a)
               ELSE IF db # "ok" THEN DbFailed("list_parcels", a.tenant, db)
               ELSE R("list_parcels", a.tenant, 0, 200,
                      SelectActiveOfTenant(rows, a.tenant, Len(rows)),
                      <<>>, FALSE)
    /\ UNCHANGED <<rows, now, rlsEnforced, auth, redis, redisUp, available, clients,
                 request, trace,
                 threads, instances>>

\* ---- POST /parcels
CreateInputs == {"ok", "missing_field", "bad_geometry"}

\* A GeoJSON geometry, by its type and the geodesic area of its coordinates in
\* square metres: a field of 2.5 ha, a plot of 1 ha, a point.
Geometry(type, area) == [type |-> type, area |-> area]

Field == Geometry("Polygon", 25000)

Plot == Geometry("Polygon", 10000)

APoint == Geometry("Point", 0)

\* ST_Area(ST_GeomFromGeoJSON(%s)::geography)
ST_Area(geometry) == geometry.area

\* ST_Area(...) / 10000, in tenths of a hectare
Hectares(geometry) == (ST_Area(geometry) * 10) \div 10000

\* a nullable column: NULL, or a value
Null == <<>>

Value(v) == <<v>>

InsertedRow(tenant, crop, geometry, t) ==
    [tenant_id |-> tenant, orion_entity_id |-> None, crop_type |-> crop,
     geometry |-> geometry, area_hectares |-> Value(Hectares(geometry)),
     ndvi_enabled |-> ColumnDefaults(t).ndvi_enabled,
     is_active |-> ColumnDefaults(t).is_active,
     updated_at |-> ColumnDefaults(t).updated_at]

create_parcel(req, input, crop, geometry, db) ==
    LET a == require_auth(req)
        inserts == a.ran /\ input = "ok" /\ db = "ok"
    IN
    /\ inserts => Len(rows) < MaxRows /\ now < MaxClock
    /\ rows' = IF inserts
               THEN Append(rows, InsertedRow(a.tenant, crop, geometry,
                                             now + 1))
               ELSE rows
    /\ now' = IF inserts THEN now + 1 ELSE now
    /\ resp' = IF ~a.ran THEN AuthReject("create_parcel", a)
               ELSE IF input # "ok"
               THEN R("create_parcel", a.tenant, 0, 400, input, <<>>, FALSE)
               ELSE IF db # "ok"
               THEN R("create_parcel", a.tenant, 0, 500, db, <<>>, FALSE)
               ELSE R("create_parcel", a.tenant, Len(rows) + 1, 201,
                      "Parcel created successfully", <<>>, FALSE)
    /\ UNCHANGED <<rlsEnforced, auth, redis, redisUp, available, clients,
                 request, trace,
                 threads, instances>>

\* ---- GET /parcels/<parcel_id>
get_parcel(req, parcel_id, db) ==
    LET a == require_auth(req)
        parcel == SelectById(rows, parcel_id, a.tenant)
    IN
    /\ resp' = IF ~a.ran THEN AuthReject("get_parcel", a)
               ELSE IF db # "ok"
               THEN DbFailed("get_parcel", a.tenant, db)
               ELSE IF parcel = 0
               THEN R("get_parcel", a.tenant, parcel_id, 404,
                      "Parcel not found", <<>>, FALSE)
               ELSE R("get_parcel", a.tenant, parcel_id, 200,
                      RowJson(rows, parcel), <<>>, FALSE)
    /\ UNCHANGED <<rows, now, rlsEnforced, auth, redis, redisUp, available, clients,
                 request, trace,
                 threads, instances>>

\* ---- PUT /parcels/<parcel_id>
EmptyData == [k \in {} |-> None]

UpdateData ==
    {EmptyData, "tenant_id" :> "tb", "crop_type" :> "corn"}
    \cup {"ndvi_enabled" :> b : b \in BOOLEAN}
    \cup {"geometry" :> g : g \in {Field, APoint}}
    \cup {("tenant_id" :> "tb") @@ ("crop_type" :> "corn"),
          ("is_active" :> FALSE) @@ ("ndvi_enabled" :> FALSE)}

allowed_fields == {"crop_type", "notes", "ndvi_enabled", "analytics_enabled",
                   "tags", "cadastral_reference"}

\* the SET list built from the request body
Updates(data) == (DOMAIN data \cap allowed_fields)
                 \cup (DOMAIN data \cap {"geometry"})

BadGeometry(data) ==
    "geometry" \in DOMAIN data /\ data["geometry"].type # "Polygon"

\* an UPDATE whose SET list holds every column the request names
ApplyUpdateAll(row, data) ==
    [c \in DOMAIN row |-> IF c \in DOMAIN data THEN data[c] ELSE row[c]]

\* UPDATE cadastral_parcels SET <updates> WHERE id = %s, on one row
ApplyUpdate(row, data) ==
    [row EXCEPT
        !.crop_type = IF "crop_type" \in DOMAIN data
                      THEN data["crop_type"] ELSE @,
        !.ndvi_enabled = IF "ndvi_enabled" \in DOMAIN data
                         THEN data["ndvi_enabled"] ELSE @,
        !.geometry = IF "geometry" \in DOMAIN data
                     THEN data["geometry"] ELSE @]

update_parcel(req, parcel_id, data, db) ==
    LET a == require_auth(req)
        executes == a.ran /\ db = "ok" /\ ~BadGeometry(data)
                    /\ Updates(data) # {}
        updated == SelectById(rows, parcel_id, a.tenant)
    IN
    /\ rows' = IF executes /\ updated # 0
               THEN [rows EXCEPT ![updated] = ApplyUpdate(@, data)]
               ELSE rows
    /\ resp' = IF ~a.ran THEN AuthReject("update_parcel", a)
               ELSE IF db # "ok"
               THEN DbFailed("update_parcel", a.tenant, db)
               ELSE IF BadGeometry(data)
               THEN R("update_parcel", a.tenant, parcel_id, 400,
                      "Invalid geometry type", <<>>, TRUE)
               ELSE IF Updates(data) = {}
               THEN R("update_parcel", a.tenant, parcel_id, 400,
                      "No fields to update", <<>>, TRUE)
               ELSE IF updated = 0
               THEN R("update_parcel", a.tenant, parcel_id, 404,
                      "Parcel not found", <<>>, FALSE)
               ELSE R("update_parcel", a.tenant, parcel_id, 200,
                      "Parcel updated successfully", <<>>, FALSE)
    /\ request' = data
    /\ UNCHANGED <<now, rlsEnforced, auth, redis, redisUp, available, clients,
                 trace,
                 threads, instances>>

\* ---- DELETE /parcels/<parcel_id>
\* UPDATE cadastral_parcels SET is_active = false WHERE id = %s
SoftDelete(row) == [row EXCEPT !.is_active = FALSE]

delete_parcel(req, parcel_id, db) ==
    LET a == require_auth(req)
        deleted == SelectById(rows, parcel_id, a.tenant)
    IN
    /\ rows' = IF a.ran /\ db = "ok" /\ deleted # 0
               THEN [rows EXCEPT ![deleted] = SoftDelete(@)]
               ELSE rows
    /\ resp' = IF ~a.ran THEN AuthReject("delete_parcel", a)
               ELSE IF db # "ok"
               THEN DbFailed("delete_parcel", a.tenant, db)
               ELSE IF deleted = 0
               THEN R("delete_parcel", a.tenant, parcel_id, 404,
                      "Parcel not found", <<>>, FALSE)
               ELSE R("delete_parcel", a.tenant, parcel_id, 200,
                      "Parcel deleted successfully", <<>>, FALSE)
    /\ UNCHANGED <<now, rlsEnforced, auth, redis, redisUp, available, clients,
                 request, trace,
                 threads, instances>>

\* ---- POST /parcels/<parcel_id>/request-ndvi
\* what the entity-manager answers to POST /ndvi/jobs: a status, or no answer
EmAnswers == {200, 202, 404, 0}

\* a handler that never looks at the flag
NdviDisabledIgnored(row) == FALSE

\* if not parcel.get('ndvi_enabled', True): 400
NdviDisabled(row) == ~row.ndvi_enabled

\* the status and message returned once the job-creation request was sent
ForwardStatus(em) ==
    IF em = 0 THEN 503 ELSE IF em \in {200, 202} THEN 202 ELSE em

ForwardMessage(em) ==
    IF em = 0 THEN "Failed to communicate with entity-manager"
    ELSE IF em \in {200, 202} THEN "NDVI processing request submitted"
    ELSE "Failed to create NDVI job"

request_ndvi_processing(req, parcel_id, db, em) ==
    LET a == require_auth(req)
        parcel == SelectById(rows, parcel_id, a.tenant)
    IN
    /\ resp' = IF ~a.ran THEN AuthReject("request_ndvi_processing", a)
               ELSE IF db # "ok"
               THEN DbFailed("request_ndvi_processing", a.tenant, db)
               ELSE IF parcel = 0
               THEN R("request_ndvi_processing", a.tenant, parcel_id, 404,
                      "Parcel not found", <<>>, TRUE)
               ELSE IF NdviDisabled(rows[parcel])
               THEN R("request_ndvi_processing", a.tenant, parcel_id, 400,
                      "NDVI processing is disabled for this parcel", <<>>, TRUE)
               ELSE R("request_ndvi_processing", a.tenant, parcel_id,
                      ForwardStatus(em), ForwardMessage(em), <<parcel>>, FALSE)
    /\ UNCHANGED <<rows, now, rlsEnforced, auth, redis, redisUp, available, clients,
                 request, trace,
                 threads, instances>>

\* ---- POST /parcels/batch-request-ndvi
BatchIds == UNION {[1..n -> PIds] : n \in 0..MaxBatch}

\* the orders in which fetchall() may return a set of rows (no ORDER BY)
Perms(S) ==
    {s \in [1..Cardinality(S) -> S] :
        \A i, j \in 1..Cardinality(S) : i # j => s[i] # s[j]}

InSet(S, x) == x \in S

\* the body of the batch response for the rows fetched, in fetch order, and the
\* set of parcels whose job creation succeeded
BatchBody(parcel_ids, valid_parcels_data, created) ==
    LET successful_jobs == SelectSeq(valid_parcels_data,
                                     LAMBDA id : InSet(created, id))
        failed_jobs == SelectSeq(valid_parcels_data,
                                 LAMBDA id : ~InSet(created, id))
    IN [requested |-> Len(parcel_ids), valid |-> Len(valid_parcels_data),
        successful |-> Len(successful_jobs), failed |-> Len(failed_jobs),
        jobs |-> successful_jobs, errors |-> failed_jobs]

BatchStatus(body) == IF body.jobs # <<>> THEN 202 ELSE 207

batch_request_ndvi(req, parcel_ids, db) ==
    LET a == require_auth(req)
        selected == IF a.ran /\ parcel_ids # <<>> /\ db = "ok"
                    THEN SelectValidForNdvi(rows, parcel_ids, a.tenant)
                    ELSE {}
    IN
    /\ \E valid_parcels_data \in Perms(selected), created \in SUBSET selected :
         LET body == BatchBody(parcel_ids, valid_parcels_data, created) IN
         resp' = IF ~a.ran THEN AuthReject("batch_request_ndvi", a)
                 ELSE IF parcel_ids = <<>>
                 THEN R("batch_request_ndvi", a.tenant, parcel_ids, 400,
                        "No parcel_ids provided", <<>>, FALSE)
                 ELSE IF db # "ok"
                 THEN DbFailed("batch_request_ndvi", a.tenant, db)
                 ELSE R("batch_request_ndvi", a.tenant, parcel_ids,
                        BatchStatus(body), body, valid_parcels_data, FALSE)
    /\ UNCHANGED <<rows, now, rlsEnforced, auth, redis, redisUp, available, clients,
                 request, trace,
                 threads, instances>>

\* ------------------------------------------------- Orion-LD synchronization
\* NGSI-LD entity ids, and str.split(':') of each
EntityIds == {"urn:ngsi-ld:AgriParcel:ta:p1", "urn:ngsi-ld:AgriParcel:tb:p2",
              "urn:ngsi-ld:p3"}

CreateCrops == {"wheat"}

Split(entity_id) ==
    CASE entity_id = "urn:ngsi-ld:AgriParcel:ta:p1" ->
             <<"urn", "ngsi-ld", "AgriParcel", "ta", "p1">>
      [] entity_id = "urn:ngsi-ld:AgriParcel:tb:p2" ->
             <<"urn", "ngsi-ld", "AgriParcel", "tb", "p2">>
      [] entity_id = "urn:ngsi-ld:p3" -> <<"urn", "ngsi-ld", "p3">>
      [] OTHER -> <<entity_id>>

\* An entity of a notification. An attribute is Absent (no such key), None
\* (present, value null) or its value; location is the geometry type of the
\* GeoProperty value, "nocoords" a Polygon without coordinates; municipality
\* stands for the municipality and province attributes together.
EmptyDict == "{}"

Entity(type, id, tenant, tenantId, location, cropType, ndviEnabled, municipality, refParent) ==
    [type |-> type, id |-> id, tenant |-> tenant, tenantId |-> tenantId,
     location |-> location, cropType |-> cropType,
     ndviEnabled |-> ndviEnabled, municipality |-> municipality,
     refParent |-> refParent]

P1 == "urn:ngsi-ld:AgriParcel:ta:p1"

P2 == "urn:ngsi-ld:AgriParcel:tb:p2"

SyncEntities ==
    {Entity("AgriParcel", P1, Absent, Absent, "Polygon", c, "true", "m", None) :
        c \in CropTypes}
    \cup {Entity("AgriParcel", P1, "tb", Absent, "Polygon", "wheat", "true", "m",
                 None),
          Entity("AgriParcel", P2, Absent, Absent, "Polygon", Absent, "true",
                 "m", None)}

OddEntities ==
    {Entity("Building", P1, Absent, Absent, "Polygon", "wheat", "true", "m", None),
     Entity("AgriParcel", "urn:ngsi-ld:p3", Absent, Absent, "Polygon", "wheat",
            "true", "m", None),
     Entity("AgriParcel", P1, Absent, Absent, "Point", "wheat", "true", "m", None),
     Entity("AgriParcel", P1, Absent, Absent, "Polygon", "wheat", "true", "m",
            Absent),
     Entity("notdict", None, Absent, Absent, Absent, Absent, Absent, Absent,
            Absent)}

Entities == SyncEntities \cup OddEntities

\* entity.get(key, {}) followed by extract_ngsi_ld_value: an absent attribute
\* comes out as the empty dict
extract_ngsi_ld_value(attribute) ==
    IF attribute = Absent THEN EmptyDict ELSE attribute

\* orion_sync.extract_tenant_from_entity
extract_tenant_from_entity(entity) ==
    IF entity.tenant # Absent THEN entity.tenant
    ELSE IF entity.tenantId # Absent THEN entity.tenantId
    ELSE LET parts == Split(entity.id) IN
         IF Len(parts) >= 4 THEN parts[4] ELSE None

\* the row whose orion_entity_id is entity_id, 0 when there is none
RECURSIVE RowOfEntity(_, _, _)
RowOfEntity(rs, entity_id, n) ==
    IF n = 0 THEN 0
    ELSE IF rs[n].orion_entity_id = entity_id THEN n
    ELSE RowOfEntity(rs, entity_id, n - 1)

\* a plain INSERT, without the ON CONFLICT clause or the unique constraint
InsertOnly(rs, entity_id, tenant_id, crop_type, geometry, ndvi_enabled, t) ==
    Append(rs, [tenant_id |-> tenant_id, orion_entity_id |-> entity_id,
                crop_type |-> crop_type, geometry |-> geometry,
                area_hectares |-> Null, ndvi_enabled |-> ndvi_enabled,
                is_active |-> TRUE, updated_at |-> t])

\* an upsert whose SET list also names is_active
UpsertReactivating(rs, entity_id, tenant_id, crop_type, geometry, ndvi_enabled, t) ==
    LET n == RowOfEntity(rs, entity_id, Len(rs)) IN
    IF n # 0
    THEN [rs EXCEPT ![n] = [@ EXCEPT !.crop_type = crop_type,
                                     !.geometry = geometry,
                                     !.ndvi_enabled = ndvi_enabled,
                                     !.is_active = TRUE,
                                     !.updated_at = t]]
    ELSE InsertOnly(rs, entity_id, tenant_id, crop_type, geometry,
                    ndvi_enabled, t)

\* an upsert whose SET list also names tenant_id
UpsertWithTenant(rs, entity_id, tenant_id, crop_type, geometry, ndvi_enabled, t) ==
    LET n == RowOfEntity(rs, entity_id, Len(rs)) IN
    IF n # 0
    THEN [rs EXCEPT ![n] = [@ EXCEPT !.tenant_id = tenant_id,
                                     !.crop_type = crop_type,
                                     !.geometry = geometry,
                                     !.ndvi_enabled = ndvi_enabled,
                                     !.updated_at = t]]
    ELSE InsertOnly(rs, entity_id, tenant_id, crop_type, geometry,
                    ndvi_enabled, t)

\* INSERT ... ON CONFLICT (orion_entity_id) DO UPDATE SET ..., at time t; the
\* statement names no area_hectares column, in its column list or in its SET
Upsert(rs, entity_id, tenant_id, crop_type, geometry, ndvi_enabled, t) ==
    LET n == RowOfEntity(rs, entity_id, Len(rs)) IN
    IF n # 0
    THEN [rs EXCEPT ![n] = [@ EXCEPT !.crop_type = crop_type,
                                     !.geometry = geometry,
                                     !.ndvi_enabled = ndvi_enabled,
                                     !.updated_at = t]]
    ELSE Append(rs, [tenant_id |-> tenant_id, orion_entity_id |-> entity_id,
                     crop_type |-> crop_type, geometry |-> geometry,
                     area_hectares |-> Null, ndvi_enabled |-> ndvi_enabled,
                     is_active |-> TRUE,
                     updated_at |-> ColumnDefaults(t).updated_at])

\* a query parameter psycopg2 cannot adapt (a dict) fails the statement
Adaptable(v) == v # EmptyDict

\* location.get('type') and location.get('coordinates')
GeometryType(location) == IF location = "nocoords" THEN "Polygon" ELSE location

HasCoordinates(location) == location # "nocoords"

\* {'type': 'Polygon', 'coordinates': coordinates} of a location
PolygonOf(location) == Geometry("Polygon", ST_Area(Field))

\* orion_sync.sync_parcel_to_postgres on the store rs at clock t: the value
\* returned and the store and clock it leaves
sync_parcel_to_postgres(rs, t, entity_id, tenant_id, location, ref_parent, full_entity, dbOk) ==
    LET municipality == extract_ngsi_ld_value(full_entity.municipality)
        cropType == extract_ngsi_ld_value(full_entity.cropType)
        crop_type == IF cropType \in {EmptyDict, None} THEN "unknown"
                     ELSE cropType
        ndviEnabled == extract_ngsi_ld_value(full_entity.ndviEnabled)
        ndvi_enabled == IF ndviEnabled = None THEN "true" ELSE ndviEnabled
        failed == [ok |-> FALSE, rows |-> rs, now |-> t]
    IN IF GeometryType(location) # "Polygon" THEN failed
       ELSE IF ~HasCoordinates(location) THEN failed
       ELSE IF ~dbOk THEN failed
       ELSE IF ~Adaptable(municipality) \/ ~Adaptable(ndvi_enabled)
               \/ ~Adaptable(ref_parent)
       THEN failed
       ELSE [ok |-> TRUE,
             rows |-> Upsert(rs, entity_id, tenant_id, crop_type,
                             PolygonOf(location), ndvi_enabled = "true",
                             t + 1),
             now |-> t + 1]

\* a direct call of sync_parcel_to_postgres
SyncParcel(entity, tenant_id, dbOk) ==
    LET r == sync_parcel_to_postgres(rows, now, entity.id, tenant_id,
                                     entity.location, entity.refParent,
                                     entity, dbOk)
    IN
    /\ Len(r.rows) <= MaxRows
    /\ r.now <= MaxClock
    /\ rows' = r.rows
    /\ now' = r.now
    /\ resp' = R("sync_parcel_to_postgres", tenant_id, entity.id,
                 IF r.ok THEN 1 ELSE 0, extract_ngsi_ld_value(entity.cropType),
                 <<>>, FALSE)
    /\ UNCHANGED <<rlsEnforced, auth, redis, redisUp, available, clients,
                 request, trace,
                 threads, instances>>

\* orion_sync.delete_parcel_from_postgres
delete_parcel_from_postgres(entity_id, dbOk) ==
    LET n == RowOfEntity(rows, entity_id, Len(rows))
        hit == dbOk /\ n # 0
    IN
    /\ hit => now < MaxClock
    /\ rows' = IF hit
               THEN [rows EXCEPT ![n] = [@ EXCEPT !.is_active = FALSE,
                                                  !.updated_at = now + 1]]
               ELSE rows
    /\ now' = IF hit THEN now + 1 ELSE now
    /\ resp' = R("delete_parcel_from_postgres", None, entity_id,
                 IF hit THEN 1 ELSE 0, None, <<>>, FALSE)
    /\ UNCHANGED <<rlsEnforced, auth, redis, redisUp, available, clients,
                 request, trace,
                 threads, instances>>

\* ---- POST /notify
\* the loop body of orion_notification on one entity; acc carries the store,
\* the clock and the two counters
\* a loop that does not count the entities whose synchronization failed
CountedSuccessOnly(acc, r) ==
    IF r.ok THEN [rows |-> r.rows, now |-> r.now, synced |-> acc.synced + 1,
                  errors |-> acc.errors]
    ELSE acc

\* the counters after sync_parcel_to_postgres returned r
Counted(acc, r) ==
    IF r.ok THEN [rows |-> r.rows, now |-> r.now, synced |-> acc.synced + 1,
                  errors |-> acc.errors]
    ELSE [acc EXCEPT !.errors = @ + 1]

ProcessEntity(entity, dbOk, acc) ==
    LET error == [acc EXCEPT !.errors = @ + 1]
        tenant_id == extract_tenant_from_entity(entity)
        location == extract_ngsi_ld_value(entity.location)
        ref_parent == extract_ngsi_ld_value(entity.refParent)
    IN IF entity.type = "notdict" THEN error
       ELSE IF entity.type # "AgriParcel" THEN acc
       ELSE IF ~Truthy(tenant_id) THEN error
       ELSE IF location = EmptyDict THEN error
       ELSE Counted(acc, sync_parcel_to_postgres(acc.rows, acc.now, entity.id,
                                                 tenant_id, location,
                                                 ref_parent, entity, dbOk))

RECURSIVE ProcessEntities(_, _, _)
ProcessEntities(entities, dbOks, acc) ==
    IF entities = <<>> THEN acc
    ELSE ProcessEntities(Tail(entities), Tail(dbOks),
                         ProcessEntity(Head(entities), Head(dbOks), acc))

\* the type of each entity of a notification
Types(entities) == [i \in 1..Len(entities) |-> entities[i].type]

\* request bodies of the webhook: not JSON, a JSON value that is not an object,
\* an empty object, or an object whose data is a list of entities
BodyKinds == {"invalid", "array", "empty", "object"}

EntityLists == UNION {[1..n -> Entities] : n \in 0..MaxEntities}

orion_notification(kind, entities, dbOks) ==
    \E acc \in {ProcessEntities(entities, dbOks,
                                [rows |-> rows, now |-> now, synced |-> 0,
                                 errors |-> 0])} :
    LET runs == kind = "object" /\ entities # <<>> IN
    /\ runs => Len(acc.rows) <= MaxRows /\ acc.now <= MaxClock
    /\ rows' = IF runs THEN acc.rows ELSE rows
    /\ now' = IF runs THEN acc.now ELSE now
    /\ resp' = LET received == [kind |-> kind, types |-> Types(entities)] IN
               IF kind \in {"invalid", "array"}
               THEN R("orion_notification", None, received, 500,
                      [error |-> kind], <<>>, FALSE)
               ELSE IF kind = "empty"
               THEN R("orion_notification", None, received, 200,
                      [status |-> "ok", message |-> "Empty notification"],
                      <<>>, FALSE)
               ELSE IF entities = <<>>
               THEN R("orion_notification", None, received, 200,
                      [status |-> "ok",
                       message |-> "No entities in notification"],
                      <<>>, FALSE)
               ELSE R("orion_notification", None, received, 200,
                      [status |-> "ok", processed |-> Len(entities),
                       synced |-> acc.synced, errors |-> acc.errors],
                      <<>>, FALSE)
    /\ UNCHANGED <<rlsEnforced, auth, redis, redisUp, available, clients,
                 request, trace,
                 threads, instances>>

\* ------------------------------------------------------ coordinate lookup
\* _coord_key(..., precision: int = 6)
Precision == 6

\* Coordinates are integers in units of 1e-7 degree, one digit below the
\* precision of the cache key.
Deg == 10 * 10^Precision

\* a key built from the first six decimals, the rest cut off
Truncate6(x) == IF x >= 0 THEN 10 * (x \div 10) ELSE -10 * ((-x) \div 10)

\* round(x, 6): the nearest multiple of 1e-6. Python rounds the binary value
\* of the float, so for a seventh decimal of 5 the direction depends on the
\* representation of the number; the coordinates used here have another
\* seventh decimal.
Round6(x) ==
    LET q == x \div 10
        r == x % 10
    IN 10 * (IF r > 5 \/ (r = 5 /\ q % 2 = 1) THEN q + 1 ELSE q)

\* f"{lat_rounded}": the text of the rounded float. Equal values have the
\* same text, but for zero: a negative number that rounds to zero gives -0.0,
\* written "-0.0", and a positive one 0.0.
Text(x, rounded) == <<rounded, rounded = 0 /\ x < 0>>

\* CadastralCache._coord_key
coord_key(lat, lon) ==
    <<"cadastral", "coord", Text(lat, Round6(lat)), Text(lon, Round6(lon))>>

\* a direct call of _coord_key for two coordinate pairs
CoordKeys(a, b) ==
    /\ resp' = R("_coord_key", None, <<a, b>>, 0,
                 <<coord_key(a.lat, a.lon), coord_key(b.lat, b.lon)>>, <<>>,
                 FALSE)
    /\ UNCHANGED <<rows, now, rlsEnforced, auth, redis, redisUp, available,
                   clients, request, trace,
                   threads, instances>>

\* coordinates a few 1e-7 degree apart, around Madrid's latitude and around
\* the Greenwich meridian
KeyLats == {404167996, 404168000, 404168004, 404168006}

KeyLons == {-37038003, -6, -4, 0, 4, 6}

KeyPoints == {[lon |-> x, lat |-> y] : x \in KeyLons, y \in KeyLats}

\* the points looked up: Madrid, a point 3e-7 degree from it, Pamplona (inside
\* both boxes), Bilbao, and a point east of the accepted range
Madrid == [lon |-> -37038000, lat |-> 404168000]
NearMadrid == [lon |-> -37038003, lat |-> 404168000]
Pamplona == [lon |-> -16432000, lat |-> 428169000]
Bilbao == [lon |-> -29350000, lat |-> 432630000]
Rome == [lon |-> 124964000, lat |-> 419028000]

LookupPoints == {Madrid, NearMadrid, Pamplona, Bilbao, Rome}

\* RegionRouter._get_navarra_bbox, _get_euskadi_bbox and Polygon.contains (a
\* point on the boundary is not contained)
InNavarraBbox(lat, lon) ==
    /\ -25 * (Deg \div 10) < lon /\ lon < -1 * Deg
    /\ 42 * Deg < lat /\ lat < 435 * (Deg \div 10)

InEuskadiBbox(lat, lon) ==
    /\ -35 * (Deg \div 10) < lon /\ lon < -15 * (Deg \div 10)
    /\ 428 * (Deg \div 10) < lat /\ lat < 436 * (Deg \div 10)

\* a router that tests the Euskadi box first
get_region_euskadi_first(lat, lon) ==
    IF ~clients THEN "spain"
    ELSE IF InEuskadiBbox(lat, lon) THEN "euskadi"
    ELSE IF InNavarraBbox(lat, lon) THEN "navarra"
    ELSE "spain"

\* region_router.get_region, and its fallback when the import failed
get_region(lat, lon) ==
    IF ~clients THEN "spain"
    ELSE IF InNavarraBbox(lat, lon) THEN "navarra"
    ELSE IF InEuskadiBbox(lat, lon) THEN "euskadi"
    ELSE "spain"

\* a range check that rejects the values on the boundary
InRangeStrict(lat, lon) ==
    /\ -10 * Deg < lon /\ lon < 5 * Deg
    /\ 35 * Deg < lat /\ lat < 45 * Deg

\* if not (-10 <= longitude <= 5) or not (35 <= latitude <= 45)
InRange(lat, lon) ==
    /\ -10 * Deg <= lon /\ lon <= 5 * Deg
    /\ 35 * Deg <= lat /\ lat <= 45 * Deg

\* A JSON object is a function from its keys. What a regional client returns
\* for a point: nothing (None, the empty object here), or the parcel found.
Keys7 == {"cadastralReference", "municipality", "province", "address",
          "coordinates", "geometry", "region"}

SpainOptional == {"address", "municipality", "province", "coordinates"}

Dict7(ref, municipality, province, address, lon, lat, geometry, region) ==
    [k \in Keys7 |->
        CASE k = "cadastralReference" -> ref
          [] k = "municipality" -> municipality
          [] k = "province" -> province
          [] k = "address" -> address
          [] k = "coordinates" -> <<lon, lat>>
          [] k = "geometry" -> geometry
          [] OTHER -> region]

Restrict(f, S) == [k \in S |-> f[k]]

\* SpanishStateCatastroClient._parse_soap_xml_response: the reference and
\* geometry keys are always set, the others when the answer holds them
SpainResults(lon, lat) ==
    {Restrict(Dict7("ref-es", "Madrid", "Madrid", "CL MAYOR 1", lon, lat, None,
                    None),
              {"cadastralReference", "geometry"} \cup optional) :
        optional \in SUBSET SpainOptional}

\* NavarraCatastroClient.query_by_coordinates
NavarraResults(lon, lat) ==
    {Dict7("ref-na", "Pamplona", "Navarra", None, lon, lat, geometry, "navarra") :
        geometry \in {None, "Polygon"}}

\* EuskadiCatastroClient.query_by_coordinates
EuskadiResults(lon, lat) ==
    {Dict7("ref-eu", "Bilbao", "Bizkaia", None, lon, lat, "Polygon", "euskadi")}

ClientResults(region, lon, lat) ==
    {EmptyData} \cup (CASE region = "navarra" -> NavarraResults(lon, lat)
                        [] region = "euskadi" -> EuskadiResults(lon, lat)
                        [] OTHER -> SpainResults(lon, lat))

\* a handler that passes the client's object on as it is
setdefaultSkipped(d, k, v) == d

\* dict.setdefault
setdefault(d, k, v) == IF k \in DOMAIN d THEN d ELSE d @@ (k :> v)

\* the "ensure consistent response structure" block of the handler
Normalized(cadastral_data, longitude, latitude, region) ==
    LET d1 == setdefault(cadastral_data, "cadastralReference", None)
        d2 == setdefault(d1, "municipality", None)
        d3 == setdefault(d2, "province", None)
        d4 == setdefault(d3, "address", None)
        d5 == setdefault(d4, "coordinates", <<longitude, latitude>>)
        d6 == setdefault(d5, "geometry", None)
    IN ("region" :> region) @@ d6

\* the body of the 404 answer
NotFoundBody(longitude, latitude, region) ==
    Dict7(None, None, None, None, longitude, latitude, None, region)
    @@ ("error" :> "Parcel not found")
    @@ ("message" :> "No cadastral parcel found at the given coordinates")

\* ---- the cache service: a key holds the JSON text of a response object
\* a get that answers from the keys last seen when the backend is down
get_by_coordinates_stale(lat, lon) ==
    IF ~available THEN EmptyData
    ELSE IF coord_key(lat, lon) \in DOMAIN redis
    THEN redis[coord_key(lat, lon)]
    ELSE EmptyData

\* CadastralCache.get_by_coordinates: the cached object, or the empty object
\* for None
get_by_coordinates(lat, lon) ==
    IF ~available THEN EmptyData
    ELSE IF ~redisUp THEN EmptyData
    ELSE IF coord_key(lat, lon) \in DOMAIN redis
    THEN redis[coord_key(lat, lon)]
    ELSE EmptyData

\* a cache write that keeps the value a key already has
set_if_absent(lat, lon, data) ==
    IF ~available THEN [ok |-> FALSE, redis |-> redis]
    ELSE IF ~redisUp THEN [ok |-> FALSE, redis |-> redis]
    ELSE [ok |-> TRUE, redis |-> redis @@ (coord_key(lat, lon) :> data)]

\* CadastralCache.set_by_coordinates: the value returned and the keys left
set_by_coordinates(lat, lon, data) ==
    IF ~available THEN [ok |-> FALSE, redis |-> redis]
    ELSE IF ~redisUp THEN [ok |-> FALSE, redis |-> redis]
    ELSE [ok |-> TRUE,
          redis |-> (coord_key(lat, lon) :> data) @@ redis]

\* CadastralCache.invalidate_by_coordinates
invalidate_by_coordinates(lat, lon) ==
    IF ~available THEN [ok |-> FALSE, redis |-> redis]
    ELSE IF ~redisUp THEN [ok |-> FALSE, redis |-> redis]
    ELSE [ok |-> coord_key(lat, lon) \in DOMAIN redis,
          redis |-> Restrict(redis, DOMAIN redis \ {coord_key(lat, lon)})]

\* direct calls of the three cache operations
CacheGet(point) ==
    /\ resp' = R("get_by_coordinates", None, point, 0,
                 get_by_coordinates(point.lat, point.lon), <<>>, FALSE)
    /\ UNCHANGED <<rows, now, rlsEnforced, auth, redis, redisUp, available, clients,
                 request, trace,
                 threads, instances>>

CacheSet(point, data) ==
    LET r == set_by_coordinates(point.lat, point.lon, data) IN
    /\ redis' = r.redis
    /\ resp' = R("set_by_coordinates", None, point, 0, r.ok, <<>>, FALSE)
    /\ UNCHANGED <<rows, now, rlsEnforced, auth, redisUp, available, clients,
                 request, trace,
                 threads, instances>>

CacheInvalidate(point) ==
    LET r == invalidate_by_coordinates(point.lat, point.lon) IN
    /\ redis' = r.redis
    /\ resp' = R("invalidate_by_coordinates", None, point, 0, r.ok, <<>>, FALSE)
    /\ UNCHANGED <<rows, now, rlsEnforced, auth, redisUp, available, clients,
                 request, trace,
                 threads, instances>>

\* ---- POST /parcels/query-by-coordinates
\* request bodies: none, one without longitude, one whose longitude is not a
\* number, and one for each point
LookupBodies ==
    {[kind |-> k, lon |-> 0, lat |-> 0] : k \in {"empty", "missing", "notnumber"}}
    \cup {[kind |-> "point", lon |-> p.lon, lat |-> p.lat] : p \in LookupPoints}

Error(error, message) == ("error" :> error) @@ ("message" :> message)

\* the answers the handler gives before it looks anything up
BadRequest(body) ==
    CASE body.kind = "empty" -> Error("Request body required", None)
      [] body.kind = "missing" ->
             Error("longitude and latitude are required", None)
      [] body.kind = "notnumber" ->
             Error("longitude and latitude must be valid numbers", None)
      [] ~InRange(body.lat, body.lon) ->
             Error("Coordinates out of valid range",
                   "Coordinates must be within Spain bounds")
      [] OTHER -> EmptyData

\* what the handler answers from the regional client's result
Answer(cadastral_data, longitude, latitude, region) ==
    IF ~clients
    THEN [status |-> 503,
          body |-> Error("Service unavailable",
                         "Spanish State Catastro client not initialized")]
    ELSE IF cadastral_data # EmptyData
    THEN [status |-> 200,
          body |-> Normalized(cadastral_data, longitude, latitude, region)]
    ELSE [status |-> 404, body |-> NotFoundBody(longitude, latitude, region)]

\* a handler that caches whatever the client returned
FoundAlways(cadastral_data) == TRUE

\* if cadastral_data: (the branch that normalizes, caches and answers 200)
Found(cadastral_data) == cadastral_data # EmptyData

\* initialized: whether _init_client could construct the SOAP client of the
\* SpanishStateCatastroClient the handler creates for this request
query_by_coordinates(req, body, cadastral_data, initialized) ==
    LET a == require_auth(req)
        longitude == body.lon
        latitude == body.lat
        looks == a.ran /\ BadRequest(body) = EmptyData
        cached_data == IF available
                       THEN get_by_coordinates(latitude, longitude)
                       ELSE EmptyData
        region == get_region(latitude, longitude)
        calls == looks /\ cached_data = EmptyData /\ clients
        answer == Answer(cadastral_data, longitude, latitude, region)
    IN
    /\ cadastral_data \in (IF calls
                           THEN ClientResults(region, longitude, latitude)
                           ELSE {EmptyData})
    /\ ~initialized => calls /\ region = "spain" /\ cadastral_data = EmptyData
    /\ redis' = IF calls /\ Found(cadastral_data) /\ available
                THEN set_by_coordinates(latitude, longitude, answer.body).redis
                ELSE redis
    /\ resp' = IF ~a.ran THEN AuthReject("query_by_coordinates", a)
               ELSE IF ~looks
               THEN R("query_by_coordinates", a.tenant, body, 400,
                      BadRequest(body), <<>>, FALSE)
               ELSE IF cached_data # EmptyData
               THEN R("query_by_coordinates", a.tenant, body, 200, cached_data,
                      <<>>, FALSE)
               ELSE R("query_by_coordinates", a.tenant, body, answer.status,
                      answer.body, IF calls THEN <<cadastral_data>> ELSE <<>>,
                      FALSE)
    /\ trace' = IF ~looks THEN <<>>
                ELSE (IF available THEN <<"get_by_coordinates">> ELSE <<>>)
                     \o (IF cached_data # EmptyData THEN <<>>
                         ELSE <<"get_region">>
                              \o (IF calls THEN <<region>> ELSE <<>>)
                              \o (IF initialized THEN <<>>
                                  ELSE <<"SOAP client not initialized">>)
                              \o (IF calls /\ Found(cadastral_data) /\ available
                                  THEN <<"set_by_coordinates">> ELSE <<>>))
    /\ UNCHANGED <<rows, now, rlsEnforced, auth, redisUp, available, clients,
                 request,
                 threads, instances>>

\* ---- the cache backend
RedisFail ==
    /\ redisUp
    /\ redisUp' = FALSE
    /\ UNCHANGED <<rows, now, rlsEnforced, resp, auth, redis, available, clients,
                 request, trace,
                 threads, instances>>

RedisRecover ==
    /\ ~redisUp
    /\ redisUp' = TRUE
    /\ UNCHANGED <<rows, now, rlsEnforced, resp, auth, redis, available, clients,
                 request, trace,
                 threads, instances>>

\* a key reaches the end of its TTL
Expire(key) ==
    /\ key \in DOMAIN redis
    /\ redis' = Restrict(redis, DOMAIN redis \ {key})
    /\ UNCHANGED <<rows, now, rlsEnforced, resp, auth, redisUp, available, clients,
                 request, trace,
                 threads, instances>>

\* ------------------------------------------------- regional WFS clients
\* One GetFeature attempt ends in a failure (a timeout, a refused connection,
\* a status other than 200, a body that is not JSON), in a collection without
\* features, or in a collection with features. A feature is the reference
\* that can be read from it ("" when none can) and its geometry type; a
\* collection whose first member is not an object is "malformed_feature".
MaxTypes == 3

FailureKinds == {"timeout", "connection_error", "status_error", "not_json"}

Feature(ref, geometry) == [ref |-> ref, geometry |-> geometry]

Response(kind, features) == [kind |-> kind, features |-> features]

FeatureLists ==
    {<<Feature("", None)>>, <<Feature("na1", "Polygon")>>,
     <<Feature("na2", "Point"), Feature("na1", "Polygon")>>}

NavarraResponses ==
    {Response(k, <<>>) : k \in FailureKinds \cup {"no_features",
                                                  "malformed_feature"}}
    \cup {Response("features", fs) : fs \in FeatureLists}

\* if 'features' in data and len(data['features']) > 0
HasFeatures(response) == response.kind \in {"features", "malformed_feature"}

\* for feature_type in feature_types: ... break / else: return None
\* the requests issued, in order, and the attempt the loop stopped at (0: none)
RECURSIVE NavarraScan(_, _)
NavarraScan(responses, i) ==
    IF i > Len(responses) THEN [tried |-> <<>>, found |-> 0]
    ELSE IF HasFeatures(responses[i]) THEN [tried |-> <<i>>, found |-> i]
    ELSE LET rest == NavarraScan(responses, i + 1)
         IN [tried |-> <<i>> \o rest.tried, found |-> rest.found]

\* "Process the first feature found": the result object, or None
NavarraResult(response, longitude, latitude) ==
    IF response.kind = "malformed_feature" THEN EmptyData
    ELSE LET feature == response.features[1]
             geometry == IF feature.geometry \in {"Polygon", "MultiPolygon"}
                         THEN feature.geometry ELSE None
         IN IF feature.ref = "" THEN EmptyData
            ELSE Dict7(feature.ref, None, "Navarra", None, longitude,
                       latitude, geometry, "navarra")

\* NavarraCatastroClient.query_by_coordinates, the feature types answering
\* with the given responses
Navarra_query_by_coordinates(point, responses) ==
    LET scan == NavarraScan(responses, 1)
        result == IF scan.found = 0 THEN EmptyData
                  ELSE NavarraResult(responses[scan.found], point.lon,
                                     point.lat)
    IN
    /\ resp' = R("Navarra.query_by_coordinates", None, responses, 0, result,
                 <<>>, FALSE)
    /\ trace' = scan.tried
    /\ UNCHANGED <<rows, now, rlsEnforced, auth, redis, redisUp, available,
                   clients, request,
                   threads, instances>>

\* ---- EuskadiCatastroClient
\* The attempts are numbered in the order of the three nested loops: for each
\* URL, for each feature type of that URL, for each of the two BBOX orders.
MaxUrls == 2

EuskadiTypes == 2

BboxCandidates == 2

EuskadiAttempts == MaxUrls * EuskadiTypes * BboxCandidates

\* A body that is not JSON goes through _parse_wfs_xml_response, which gives
\* one feature or nothing ("xml"); a 400 naming outputFormat is retried
\* without it and the second answer parsed the same way ("rejected_format").
EuskadiFeatureLists ==
    {<<Feature("", "Polygon")>>, <<Feature("eu1", "Polygon")>>}

EuskadiResponses ==
    {Response(k, <<>>) :
        k \in {"timeout", "status_error", "no_features", "malformed_feature",
               "xml", "rejected_format"}}
    \cup {Response(k, fs) : k \in {"features", "xml", "rejected_format"},
                           fs \in EuskadiFeatureLists}

\* found_features = True
EuskadiFound(response) ==
    \/ response.kind = "malformed_feature"
    \/ response.kind \in {"features", "xml", "rejected_format"}
       /\ response.features # <<>>

\* the requests one attempt issues
EuskadiRequests(response, i) ==
    IF response.kind = "rejected_format" THEN <<i, i>> ELSE <<i>>

RECURSIVE EuskadiScan(_, _)
EuskadiScan(responses, i) ==
    IF i > Len(responses) THEN [tried |-> <<>>, found |-> 0]
    ELSE IF EuskadiFound(responses[i])
    THEN [tried |-> EuskadiRequests(responses[i], i), found |-> i]
    ELSE LET rest == EuskadiScan(responses, i + 1)
         IN [tried |-> EuskadiRequests(responses[i], i) \o rest.tried,
             found |-> rest.found]

\* "Parse GeoJSON response": the result object, or None
EuskadiResult(response, longitude, latitude) ==
    IF response.kind = "malformed_feature" THEN EmptyData
    ELSE LET feature == response.features[1]
         IN IF feature.ref = "" THEN EmptyData
            ELSE Dict7(feature.ref, None, "País Vasco", None, longitude,
                       latitude, feature.geometry, "euskadi")

\* EuskadiCatastroClient.query_by_coordinates
Euskadi_query_by_coordinates(point, responses) ==
    LET scan == EuskadiScan(responses, 1)
        result == IF scan.found = 0 THEN EmptyData
                  ELSE EuskadiResult(responses[scan.found], point.lon,
                                     point.lat)
    IN
    /\ resp' = R("Euskadi.query_by_coordinates", None, responses, 0, result,
                 <<>>, FALSE)
    /\ trace' = scan.tried
    /\ UNCHANGED <<rows, now, rlsEnforced, auth, redis, redisUp, available,
                   clients, request,
                   threads, instances>>

\* the answers of the Euskadi servers to one query: every attempt fails in
\* the same way, but for two of them
EuskadiAnswers ==
    {[a \in 1..EuskadiAttempts |->
         IF a = i THEN r1 ELSE IF a = j THEN r2 ELSE Response(f, <<>>)] :
       i \in 1..EuskadiAttempts, j \in 1..EuskadiAttempts,
       r1 \in EuskadiResponses, r2 \in EuskadiResponses,
       f \in {"timeout", "status_error"}}

\* a direct call of the region router
GetRegion(point) ==
    /\ resp' = R("get_region", None, point, 0,
                 get_region(point.lat, point.lon), <<>>, FALSE)
    /\ UNCHANGED <<rows, now, rlsEnforced, auth, redis, redisUp, available,
                   clients, request, trace,
                   threads, instances>>

\* points on, inside and outside the sides of the two boxes, in tenths of a
\* degree
RegionPoints ==
    {[lon |-> x * (Deg \div 10), lat |-> y * (Deg \div 10)] :
        x \in {-40, -35, -30, -25, -20, -15, -12, -10, -5},
        y \in {415, 420, 425, 428, 430, 435, 436, 440}}

\* ---------------------------------------- Spanish State client: geometry
\* A cadastral reference is a sequence of characters. The references used are
\* the first n characters of a run of digits and letters, as they are, with a
\* dash after the seventh (the form '-'.join(pc_parts) gives), or with a
\* dash and a slash.
MaxRefLen == 16

RefChar(i) == <<"1", "9", "0", "7", "8", "B", "6", "3", "4", "5">>[(i % 10) + 1]

RefRun(n) == [i \in 1..n |-> RefChar(i)]

InsertAt(s, k, c) ==
    IF Len(s) < k THEN s
    ELSE SubSeq(s, 1, k) \o <<c>> \o SubSeq(s, k + 1, Len(s))

References ==
    {RefRun(n) : n \in 1..MaxRefLen}
    \cup {InsertAt(RefRun(n), 7, "-") : n \in 1..MaxRefLen}
    \cup {InsertAt(InsertAt(RefRun(n), 7, "-"), 3, "/") : n \in 1..MaxRefLen}

\* str.replace(ch, '')
RECURSIVE Remove(_, _)
Remove(s, ch) ==
    IF s = <<>> THEN <<>>
    ELSE (IF Head(s) = ch THEN <<>> ELSE <<Head(s)>>) \o Remove(Tail(s), ch)

\* ''.join(c for c in rc_normalized if c.isalnum())
IsAlnum(c) == c \notin {"-", "/"}

RECURSIVE KeepAlnum(_)
KeepAlnum(s) ==
    IF s = <<>> THEN <<>>
    ELSE (IF IsAlnum(Head(s)) THEN <<Head(s)>> ELSE <<>>) \o KeepAlnum(Tail(s))

\* s.ljust(14, '0')
Ljust14(s) == s \o [i \in 1..(14 - Len(s)) |-> "0"]

\* if len(x) > 14: x = x[:14] elif len(x) < 14: x = x.ljust(14, '0')
Fit14(s) ==
    IF Len(s) > 14 THEN SubSeq(s, 1, 14)
    ELSE IF Len(s) < 14 THEN Ljust14(s)
    ELSE s

\* cadastral_reference.split('-')[0]
RECURSIVE BeforeDash(_)
BeforeDash(s) ==
    IF s = <<>> \/ Head(s) = "-" THEN <<>>
    ELSE <<Head(s)>> \o BeforeDash(Tail(s))

Param(name, value) == [name |-> name, value |-> value]

\* _get_geometry_from_wfs: the GetParcel requests it sends (a second one, with
\* version 1.1.0, when the first is answered 404)
WfsAnswers == {"found", "404", "nothing"}

get_geometry_from_wfs(cadastral_reference, wfs) ==
    LET refcat == Fit14(Remove(cadastral_reference, "-"))
    IN IF wfs = "404"
       THEN <<Param("REFCAT", refcat), Param("REFCAT", refcat)>>
       ELSE <<Param("REFCAT", refcat)>>

\* _get_geometry_from_soap: the Consulta_CPMRC call it makes
get_geometry_from_soap(cadastral_reference, initialized) ==
    LET first == BeforeDash(cadastral_reference)
        codes == Len(first) >= 5
        rc_normalized == Fit14(KeepAlnum(Remove(cadastral_reference, "-")))
    IN IF ~initialized THEN <<>>
       ELSE <<Param("RC", rc_normalized),
              Param("Provincia", IF codes THEN SubSeq(first, 1, 2) ELSE <<>>),
              Param("Municipio", IF codes THEN SubSeq(first, 3, 5) ELSE <<>>)>>

\* get_parcel_geometry: the WFS first, Consulta_CPMRC when it gave nothing
get_parcel_geometry(cadastral_reference, wfs, initialized) ==
    /\ resp' = R("get_parcel_geometry", None, cadastral_reference, 0, wfs,
                 get_geometry_from_wfs(cadastral_reference, wfs)
                 \o (IF wfs = "found" THEN <<>>
                     ELSE get_geometry_from_soap(cadastral_reference,
                                                 initialized)),
                 FALSE)
    /\ UNCHANGED <<rows, now, rlsEnforced, auth, redis, redisUp, available,
                   clients, request, trace,
                   threads, instances>>

\* _fetch_geometry_from_wfs, called by query_by_coordinates when the parsed
\* answer has a reference and no geometry
fetch_geometry_from_wfs(ref_cat) ==
    /\ resp' = R("_fetch_geometry_from_wfs", None, ref_cat, 0, None,
                 <<Param("refcat", ref_cat)>>, FALSE)
    /\ UNCHANGED <<rows, now, rlsEnforced, auth, redis, redisUp, available,
                   clients, request, trace,
                   threads, instances>>

\* ------------------------------------------- WFS feature-type discovery
\* A type name is a sequence of characters.
MaxNames == 4

municipio_limite == <<"m", "u", "n", "i", "c", "i", "p", "i", "o", "_", "l", "i", "m", "i", "t", "e">>

CATAST_Pol_ParcelaUrba ==
    <<"C", "A", "T", "A", "S", "T", "_", "P", "o", "l", "_", "P", "a", "r", "c", "e", "l", "a", "U", "r", "b", "a">>

CP_CadastralParcel ==
    <<"C", "P", ":", "C", "a", "d", "a", "s", "t", "r", "a", "l", "P", "a", "r", "c", "e", "l">>

catast_linea == <<"c", "a", "t", "a", "s", "t", "_", "l", "i", "n", "e", "a">>

Catast_Rustica == <<"C", "a", "t", "a", "s", "t", "_", "R", "u", "s", "t", "i", "c", "a">>

Parcela_TXT == <<"P", "a", "r", "c", "e", "l", "a", "_", "T", "X", "T">>

Vias == <<"V", "i", "a", "s">>

TypeNames ==
    {municipio_limite, CATAST_Pol_ParcelaUrba, CP_CadastralParcel,
     catast_linea, Catast_Rustica, Parcela_TXT, Vias}

TypeLists == UNION {[1..n -> TypeNames] : n \in 0..MaxNames}

primary_keywords ==
    {<<"p", "a", "r", "c", "e", "l">>,
     <<"f", "i", "n", "c", "a">>,
     <<"p", "r", "e", "d", "i", "o">>,
     <<"c", "p", ":", "c", "a", "d", "a", "s", "t", "r", "a", "l", "p", "a", "r", "c", "e", "l">>}

secondary_keywords ==
    {<<"c", "a", "t", "a", "s", "t">>,
     <<"r", "u", "s", "t", "i", "c">>,
     <<"u", "r", "b", "a", "n">>,
     <<"c", "p", ":">>}

excluded_keywords ==
    {<<"m", "u", "n", "i", "c", "i", "p", "i", "o">>,
     <<"c", "o", "n", "c", "e", "j", "o">>,
     <<"c", "a", "s", "c", "o", "u", "r", "b", "a", "n", "o">>,
     <<"p", "o", "l", "i", "g", "o", "n", "o">>,
     <<"t", "x", "t">>,
     <<"l", "i", "n", "_">>,
     <<"l", "i", "n", "e">>,
     <<"p", "t", "_">>,
     <<"t", "e", "x", "t">>,
     <<"e", "d", "i", "f">>}

\* ft.lower(), for the capitals the names have
Capitals ==
    ("A" :> "a") @@ ("C" :> "c") @@ ("P" :> "p") @@ ("R" :> "r") @@ ("S"
    :> "s") @@ ("T" :> "t") @@ ("U" :> "u") @@ ("V" :> "v") @@ ("X" :>
    "x")

Lower(ft) ==
    [i \in 1..Len(ft) |-> IF ft[i] \in DOMAIN Capitals THEN Capitals[ft[i]]
                          ELSE ft[i]]

\* keyword in ft_lower
Contains(ft_lower, keyword) ==
    \E i \in 0..(Len(ft_lower) - Len(keyword)) :
        SubSeq(ft_lower, i + 1, i + Len(keyword)) = keyword

\* any(keyword in ft_lower for keyword in keywords)
AnyIn(ft, keywords) ==
    \E ft_lower \in {Lower(ft)} :
        \E keyword \in keywords : Contains(ft_lower, keyword)

\* the three tests of the loop, for each name
Matches ==
    [ft \in TypeNames |->
        [excluded |-> AnyIn(ft, excluded_keywords),
         primary |-> AnyIn(ft, primary_keywords),
         secondary |-> AnyIn(ft, secondary_keywords)]]

\* the loop over feature_types, with the two lists it fills
RECURSIVE FilterLoop(_, _, _)
FilterLoop(feature_types, primary_matches, secondary_matches) ==
    IF feature_types = <<>> THEN <<primary_matches, secondary_matches>>
    ELSE LET ft == Head(feature_types)
         IN IF Matches[ft].excluded
            THEN FilterLoop(Tail(feature_types), primary_matches,
                            secondary_matches)
            ELSE IF Matches[ft].primary
            THEN FilterLoop(Tail(feature_types),
                            Append(primary_matches, ft), secondary_matches)
            ELSE IF Matches[ft].secondary
            THEN FilterLoop(Tail(feature_types), primary_matches,
                            Append(secondary_matches, ft))
            ELSE FilterLoop(Tail(feature_types), primary_matches,
                            secondary_matches)

\* [ft for ft in feature_types if not any(k in ft.lower() for k in excluded)]
RECURSIVE NotExcluded(_)
NotExcluded(feature_types) ==
    IF feature_types = <<>> THEN <<>>
    ELSE (IF Matches[Head(feature_types)].excluded THEN <<>>
          ELSE <<Head(feature_types)>>)
         \o NotExcluded(Tail(feature_types))

\* a filter without the fallback to the exclusion-filtered list
filter_without_fallback(feature_types) ==
    LET Result(matches) == matches[1] \o matches[2]
    IN Result(FilterLoop(feature_types, <<>>, <<>>))

\* a filter that puts the secondary matches first
filter_secondary_first(feature_types) ==
    LET Result(matches) ==
            IF matches = <<<<>>, <<>>>> /\ feature_types # <<>>
            THEN NotExcluded(feature_types)
            ELSE matches[2] \o matches[1]
    IN Result(FilterLoop(feature_types, <<>>, <<>>))

\* WFSCapabilitiesDiscovery.filter_cadastral_types
filter_cadastral_types(feature_types) ==
    LET Result(matches) ==
            IF matches = <<<<>>, <<>>>> /\ feature_types # <<>>
            THEN NotExcluded(feature_types)
            ELSE matches[1] \o matches[2]
    IN Result(FilterLoop(feature_types, <<>>, <<>>))

\* a call of the filter on a list of discovered names
FilterTypes(feature_types) ==
    /\ resp' = R("filter_cadastral_types", None, feature_types, 0,
                 filter_cadastral_types(feature_types), <<>>, FALSE)
    /\ UNCHANGED <<rows, now, rlsEnforced, auth, redis, redisUp, available,
                   clients, request, trace,
                   threads, instances>>

\* ------------------------------------------------- concurrent requests
\* The handlers run in the threads of the server, with no lock around the
\* cache or the module globals. A thread is at a place of the code it runs
\* (pc) with its local values.
MaxThreads == 2

Threads == 1..MaxThreads

IdleThread == [pc |-> "idle"]

NoThreads == [t \in Threads |-> IdleThread]

\* two points of Navarre 3e-7 degree apart, and the answers the Navarre
\* client gives for a point
NearPamplona == [lon |-> Pamplona.lon + 3, lat |-> Pamplona.lat]

RacePoints == {Pamplona, NearPamplona}

\* query_by_coordinates up to its cache check: a hit is answered at once
LookupCheck(t, point) ==
    /\ threads[t].pc = "idle"
    /\ \E cached_data \in {get_by_coordinates(point.lat, point.lon)} :
          threads' = [threads EXCEPT ![t] =
              IF cached_data # EmptyData
              THEN [pc |-> "answered", point |-> point, status |-> 200,
                    body |-> cached_data, upstream |-> EmptyData,
                    wrote |-> FALSE]
              ELSE [pc |-> "missed", point |-> point]]
    /\ UNCHANGED <<rows, now, rlsEnforced, resp, auth, redis, redisUp,
                   available, clients, request, trace, instances>>

\* after a miss: get_region, the regional client, and the normalization
LookupQuery(t, cadastral_data) ==
    /\ threads[t].pc = "missed"
    /\ LET point == threads[t].point
           region == get_region(point.lat, point.lon)
           answer == Answer(cadastral_data, point.lon, point.lat, region)
       IN /\ cadastral_data \in ClientResults(region, point.lon, point.lat)
          /\ ~clients => cadastral_data = EmptyData
          /\ threads' = [threads EXCEPT ![t] =
                 [pc |-> IF Found(cadastral_data) THEN "found"
                         ELSE "answered",
                  point |-> point, status |-> answer.status,
                  body |-> answer.body, upstream |-> cadastral_data,
                  wrote |-> FALSE]]
    /\ UNCHANGED <<rows, now, rlsEnforced, resp, auth, redis, redisUp,
                   available, clients, request, trace, instances>>

\* _cache.set_by_coordinates(latitude, longitude, cadastral_data), and the
\* 200 answer
LookupStore(t) ==
    /\ threads[t].pc = "found"
    /\ \E r \in {set_by_coordinates(threads[t].point.lat,
                                    threads[t].point.lon, threads[t].body)} :
          /\ redis' = IF available THEN r.redis ELSE redis
          /\ threads' = [threads EXCEPT ![t].pc = "answered",
                                        ![t].wrote = available /\ r.ok]
    /\ UNCHANGED <<rows, now, rlsEnforced, resp, auth, redisUp, available,
                   clients, request, trace, instances>>

\* the answer was delivered; the thread serves another request
LookupReturn(t) ==
    /\ threads[t].pc = "answered"
    /\ threads' = [threads EXCEPT ![t] = IdleThread]
    /\ UNCHANGED <<rows, now, rlsEnforced, resp, auth, redis, redisUp,
                   available, clients, request, trace, instances>>

\* ---- the lazily created singletons
\* A module global holds None (0 here) or the object assigned to it; objects
\* are numbered in the order of their construction.
Singletons == {"_router_instance", "_cache_instance"}

NoInstances == [global |-> [g \in Singletons |-> 0],
                constructed |-> [g \in Singletons |-> 0]]

\* get_region_router / get_cache: if _instance is None
GetterTest(t, g) ==
    /\ threads[t].pc = "idle"
    /\ threads' = [threads EXCEPT ![t] =
           [pc |-> IF instances.global[g] = 0 THEN "constructing"
                   ELSE "returning",
            getter |-> g]]
    /\ UNCHANGED <<rows, now, rlsEnforced, resp, auth, redis, redisUp,
                   available, clients, request, trace, instances>>

\* _instance = RegionRouter() / CadastralCache()
GetterConstruct(t) ==
    /\ threads[t].pc = "constructing"
    /\ LET g == threads[t].getter
           object == instances.constructed[g] + 1
       IN instances' = [global |-> [instances.global EXCEPT ![g] = object],
                        constructed |->
                            [instances.constructed EXCEPT ![g] = object]]
    /\ threads' = [threads EXCEPT ![t].pc = "returning"]
    /\ UNCHANGED <<rows, now, rlsEnforced, resp, auth, redis, redisUp,
                   available, clients, request, trace>>

\* return _instance
GetterReturn(t) ==
    /\ threads[t].pc = "returning"
    /\ threads' = [threads EXCEPT ![t] =
           [pc |-> "returned", getter |-> threads[t].getter,
            got |-> instances.global[threads[t].getter]]]
    /\ UNCHANGED <<rows, now, rlsEnforced, resp, auth, redis, redisUp,
                   available, clients, request, trace, instances>>

\* the caller is done with the object; the thread makes another call
GetterDone(t) ==
    /\ threads[t].pc = "returned"
    /\ threads' = [threads EXCEPT ![t] = IdleThread]
    /\ UNCHANGED <<rows, now, rlsEnforced, resp, auth, redis, redisUp,
                   available, clients, request, trace, instances>>

\* ------------------------------------------------------- the specifications
NoResp == R("none", None, 0, 0, None, <<>>, FALSE)

\* the worker serves one request at a time: it is idle until a request arrives,
\* runs the handler to its response, and is idle again once that is delivered
Idle == resp = NoResp /\ auth = NoAuth

Respond ==
    /\ ~Idle
    /\ resp' = NoResp
    /\ auth' = NoAuth
    /\ request' = None
    /\ trace' = <<>>
    /\ UNCHANGED <<rows, now, rlsEnforced, redis, redisUp, available, clients,
                   threads, instances>>

Init ==
    /\ rows = <<>>
    /\ now = 0
    /\ rlsEnforced \in BOOLEAN
    /\ resp = NoResp
    /\ auth = NoAuth
    /\ redis = EmptyData
    /\ redisUp = TRUE
    /\ available = TRUE
    /\ clients = TRUE
    /\ request = None
    /\ trace = <<>>
    /\ threads = NoThreads
    /\ instances = NoInstances

\* the parcel store behind the REST handlers
Next ==
    \/ \E req \in RestRequests, db \in DbOutcomes :
          Idle /\ list_parcels(req, db)
    \/ \E req \in RestRequests, input \in CreateInputs, crop \in CropTypes,
          db \in DbOutcomes : Idle /\ create_parcel(req, input, crop, Field, db)
    \/ \E req \in RestRequests, parcel_id \in PIds, db \in DbOutcomes :
          Idle /\ get_parcel(req, parcel_id, db)
    \/ \E req \in RestRequests, parcel_id \in PIds, data \in UpdateData,
          db \in DbOutcomes : Idle /\ update_parcel(req, parcel_id, data, db)
    \/ \E req \in RestRequests, parcel_id \in PIds, db \in DbOutcomes :
          Idle /\ delete_parcel(req, parcel_id, db)
    \/ Respond

Spec == Init /\ [][Next]_vars

\* the NDVI job requests, over parcels created and switched by the handlers
NdviSwitches == {"ndvi_enabled" :> b : b \in BOOLEAN}

NextNdvi ==
    \/ \E req \in RestRequests, input \in CreateInputs, crop \in CreateCrops,
          db \in DbOutcomes : Idle /\ create_parcel(req, input, crop, Field, db)
    \/ \E req \in RestRequests, parcel_id \in PIds, data \in NdviSwitches,
          db \in DbOutcomes : Idle /\ update_parcel(req, parcel_id, data, db)
    \/ \E req \in RestRequests, parcel_id \in PIds, db \in DbOutcomes,
          em \in EmAnswers :
          Idle /\ request_ndvi_processing(req, parcel_id, db, em)
    \/ \E req \in RestRequests, parcel_ids \in BatchIds, db \in DbOutcomes :
          Idle /\ batch_request_ndvi(req, parcel_ids, db)
    \/ Respond

SpecNdvi == Init /\ [][NextNdvi]_vars

\* the synchronization functions and the /notify webhook
NotifyFailAt(entities) == 0..Len(entities)

NextNotify ==
    \/ \E entity \in SyncEntities, tenant_id \in Tenants, dbOk \in BOOLEAN :
          Idle /\ SyncParcel(entity, tenant_id, dbOk)
    \/ \E entity_id \in EntityIds, dbOk \in BOOLEAN :
          Idle /\ delete_parcel_from_postgres(entity_id, dbOk)
    \/ \E kind \in BodyKinds \ {"object"} :
          Idle /\ orion_notification(kind, <<>>, <<>>)
    \/ \E entities \in EntityLists :
          \E failAt \in NotifyFailAt(entities) :
             Idle /\ orion_notification("object", entities,
                                        [i \in 1..Len(entities) |-> i # failAt])
    \/ Respond

SpecNotify == Init /\ [][NextNotify]_vars

\* the two authentication decorators, on every request
NextAuth ==
    \/ Idle /\ \E req \in Requests : CallRequireAuth(req)
    \/ Idle /\ \E req \in Requests, trust \in BOOLEAN, secret \in BOOLEAN :
                  CallRequireKeycloakAuth(req, trust, secret)
    \/ Respond

SpecAuth == Init /\ [][NextAuth]_vars

\* the coordinate lookup and the cache service; the cache object is built when
\* the process starts, with the backend up or down
InitLookup ==
    /\ rows = <<>>
    /\ now = 0
    /\ rlsEnforced = FALSE
    /\ resp = NoResp
    /\ auth = NoAuth
    /\ redis = EmptyData
    /\ redisUp \in BOOLEAN
    /\ available = redisUp
    /\ clients \in BOOLEAN
    /\ request = None
    /\ trace = <<>>
    /\ threads = NoThreads
    /\ instances = NoInstances

\* the objects the handler passes to set_by_coordinates for a point
Cacheable(point) ==
    LET region == get_region(point.lat, point.lon) IN
    {Normalized(d, point.lon, point.lat, region) :
        d \in ClientResults(region, point.lon, point.lat) \ {EmptyData}}

CachePoints == {p \in LookupPoints : InRange(p.lat, p.lon)}

NextLookup ==
    \/ \E req \in RestRequests, body \in LookupBodies :
          Idle /\ \E cadastral_data \in
                        ClientResults(get_region(body.lat, body.lon),
                                      body.lon, body.lat) :
                     \E initialized \in BOOLEAN :
                        query_by_coordinates(req, body, cadastral_data,
                                             initialized)
    \/ \E point \in CachePoints : Idle /\ CacheGet(point)
    \/ \E point \in CachePoints :
          Idle /\ \E data \in Cacheable(point) : CacheSet(point, data)
    \/ \E point \in CachePoints : Idle /\ CacheInvalidate(point)
    \/ Idle /\ RedisFail
    \/ Idle /\ RedisRecover
    \/ \E point \in CachePoints : Idle /\ Expire(coord_key(point.lat, point.lon))
    \/ Respond

SpecLookup == InitLookup /\ [][NextLookup]_vars

\* ------------------------------------------------------------- the claims
\* C1 (Spec). Tenant isolation: a get-by-id answered 200 returns a parcel of
\* the caller's tenant, and an update or delete answered 200 changed a row of
\* the caller's tenant.
C1_TenantIsolation ==
    /\ (resp.op = "get_parcel" /\ resp.status = 200)
          => resp.body.tenant_id = resp.caller
    /\ (resp.op \in {"update_parcel", "delete_parcel"} /\ resp.status = 200)
          => rows[resp.pid].tenant_id = resp.caller

\* C2 (Spec). Soft-delete semantics: once a parcel is deleted its row remains
\* with is_active = false, and "get parcel" never answers 200 for it.
C2_SoftDelete ==
    (resp.op = "get_parcel" /\ resp.status = 200) => resp.body.is_active

\* C3 (SpecNotify). Upsert idempotence: no two rows hold the same
\* orion_entity_id; a successful synchronization leaves a row for its entity
\* with the crop type of the call, and when the entity had a row before, the
\* number of rows is unchanged and updated_at is strictly greater than before.
UniqueEntity(rs) ==
    \A i, j \in 1..Len(rs) :
        rs[i].orion_entity_id = rs[j].orion_entity_id => i = j

SyncedStep ==
    (resp'.op = "sync_parcel_to_postgres" /\ resp'.status = 1
     /\ resp'.body \in CropTypes)
    => LET before == RowOfEntity(rows, resp'.pid, Len(rows))
           after == RowOfEntity(rows', resp'.pid, Len(rows'))
       IN /\ after # 0
          /\ rows'[after].crop_type = resp'.body
          /\ before # 0 => /\ Len(rows') = Len(rows)
                           /\ after = before
                           /\ rows'[after].updated_at > rows[before].updated_at

C3_UpsertIdempotence == [][UniqueEntity(rows') /\ SyncedStep]_vars

\* the entity was synchronized a second time, with another crop type
C3_Witness ==
    /\ resp.op = "sync_parcel_to_postgres" /\ resp.status = 1
    /\ resp.body = "corn"
    /\ Len(rows) = 1
    /\ rows[1].crop_type = "corn" /\ rows[1].updated_at = 2 /\ rows[1].is_active

\* C4 (SpecNdvi). Batch NDVI accounting, for a non-empty list and a store that
\* answers: requested is the number of ids supplied, valid is the number of
\* distinct ids among them whose row exists, is visible to the caller and has
\* NDVI enabled, a job was attempted for each valid parcel, and the status is
\* 202 if at least one job was created and 207 otherwise; the empty list is
\* answered 400.
ValidIds(ids, caller) ==
    {id \in {ids[i] : i \in 1..Len(ids)} :
        /\ Exists(rows, id)
        /\ rows[id].ndvi_enabled
        /\ rlsEnforced => rows[id].tenant_id = caller}

C5_NdviGating ==
    /\ (resp.op = "request_ndvi_processing" /\ resp.caller # None
        /\ resp.body # "Internal server error")
       => /\ resp.sent # <<>> => resp.sent = <<resp.pid>>
          /\ ~Exists(rows, resp.pid) => resp.status = 404 /\ resp.sent = <<>>
          /\ (Exists(rows, resp.pid) /\ ~rows[resp.pid].ndvi_enabled)
             => /\ resp.sent = <<>>
                /\ resp.status \in {400, 404}
                /\ (~rlsEnforced \/ rows[resp.pid].tenant_id = resp.caller)
                   => resp.status = 400
    /\ resp.op \in {"request_ndvi_processing", "batch_request_ndvi"}
       => \A i \in 1..Len(resp.sent) :
             Exists(rows, resp.sent[i]) /\ rows[resp.sent[i]].ndvi_enabled

\* a single request for a parcel with NDVI disabled was refused
C5_Witness ==
    /\ resp.op = "request_ndvi_processing" /\ resp.status = 400
    /\ Exists(rows, resp.pid) /\ ~rows[resp.pid].ndvi_enabled
    /\ resp.sent = <<>>

C7_CacheDegradation ==
    ~redisUp
    => /\ resp.op = "get_by_coordinates" => resp.body = EmptyData
       /\ resp.op \in {"set_by_coordinates", "invalidate_by_coordinates"}
          => resp.body = FALSE
       /\ (resp.op = "query_by_coordinates" /\ resp.caller # None
           /\ resp.status # 400)
          => LET region == get_region(resp.pid.lat, resp.pid.lon) IN
             /\ clients => resp.sent # <<>>
             /\ ~clients => resp.status = 503
             /\ (clients /\ resp.sent[1] = EmptyData)
                => /\ resp.status = 404
                   /\ resp.body = NotFoundBody(resp.pid.lon, resp.pid.lat, region)
             /\ (clients /\ resp.sent[1] # EmptyData)
                => /\ resp.status = 200
                   /\ \A k \in DOMAIN resp.sent[1] \ {"region"} :
                         resp.body[k] = resp.sent[1][k]
                   /\ resp.body["region"] = region

\* the backend went down with the point cached, and the lookup was answered
\* from the regional client
C7_Witness ==
    /\ ~redisUp /\ available
    /\ resp.op = "query_by_coordinates" /\ resp.status = 200
    /\ coord_key(resp.pid.lat, resp.pid.lon) \in DOMAIN redis
    /\ resp.sent # <<>>

\* C8 (SpecAuth). Every request a decorator rejects is answered 401.
C8_AuthFailure401 ==
    (auth.mw # None /\ ~auth.res.ran) => auth.res.status = 401

\* C9 (SpecAuth). Gateway-trust tenant resolution: when require_auth lets the
\* handler run, the tenant is the X-Tenant-ID header if it carries a value,
\* otherwise the first of the claims tenant-id, tenant_id, tenant that carries
\* one; a token that decodes and is not expired, with no tenant in the header
\* or the claims, is rejected with 401.
Present(x) == x # None /\ x # ""

C9_TenantResolution ==
    auth.mw = "require_auth"
    => LET req == auth.req
           token == req.token
       IN /\ auth.res.ran
             => /\ req.authz = "bearer"
                /\ auth.res.tenant =
                      IF Present(req.xTenant) THEN req.xTenant
                      ELSE IF Present(token.c1) THEN token.c1
                      ELSE IF Present(token.c2) THEN token.c2
                      ELSE token.c3
                /\ Present(auth.res.tenant)
          /\ (req.authz = "bearer" /\ token.kind \in {"valid", "forged"}
              /\ ~Present(req.xTenant) /\ ~Present(token.c1)
              /\ ~Present(token.c2) /\ ~Present(token.c3))
             => ~auth.res.ran /\ auth.res.status = 401

\* no header, no tenant-id claim, and both tenant_id and tenant claims: the
\* handler ran with the tenant_id claim
C9_Witness ==
    /\ auth.mw = "require_auth" /\ auth.res.ran
    /\ auth.req.xTenant = None /\ auth.req.token.c1 = ""
    /\ auth.req.token.c2 = "t2" /\ auth.req.token.c3 = "t3"
    /\ auth.res.tenant = "t2"

\* C10 (SpecNotify). The webhook answers 200 to every notification object; an
\* empty one gets a message and changes nothing; otherwise processed is the
\* number of items received, synced the number of entities written to the
\* store, and every item that is not skipped as a non-AgriParcel entity is
\* counted either as synced or as an error, whatever happened to the items
\* before it.
Count(types, S) == Cardinality({i \in 1..Len(types) : types[i] \in S})

C10_NotifyStep ==
    (resp'.op = "orion_notification"
     /\ resp'.pid.kind \in {"empty", "object"})
    => /\ resp'.status = 200
       /\ resp'.pid.types = <<>>
          => "processed" \notin DOMAIN resp'.body /\ rows' = rows
       /\ resp'.pid.types # <<>>
          => /\ resp'.body.processed = Len(resp'.pid.types)
             /\ resp'.body.synced = now' - now
             /\ resp'.body.synced + resp'.body.errors
                   = Count(resp'.pid.types, {"AgriParcel", "notdict"})

Whitelist == allowed_fields \cup {"geometry"}

C11_UpdateStep ==
    resp'.op = "update_parcel"
    => /\ resp'.status # 200 => rows' = rows
       /\ resp'.status = 200
          => /\ Len(rows') = Len(rows)
             /\ \A i \in 1..Len(rows) : i # resp'.pid => rows'[i] = rows[i]
             /\ \A c \in DOMAIN rows[resp'.pid] :
                   IF c \in Whitelist \cap DOMAIN request'
                   THEN rows'[resp'.pid][c] = request'[c]
                   ELSE rows'[resp'.pid][c] = rows[resp'.pid][c]
       /\ (resp'.caller # None /\ resp'.status # 500
           /\ Whitelist \cap DOMAIN request' = {})
          => resp'.status = 400

C11_UpdateFrame == [][C11_UpdateStep]_vars

\* a request naming tenant_id and crop_type was answered 200: the crop type is
\* the one sent and the tenant is not
C11_Witness ==
    /\ resp.op = "update_parcel" /\ resp.status = 200
    /\ DOMAIN request = {"tenant_id", "crop_type"}
    /\ rows[resp.pid].crop_type = request["crop_type"]
    /\ rows[resp.pid].tenant_id # request["tenant_id"]

\* C12 (SpecLookup). Order of steps in one coordinate lookup: the cache, when
\* the process has one, is read first; on a hit the cached payload is returned
\* with 200, nothing else is called and nothing is written; on a miss the
\* region is classified next, then the client of that region is queried, and
\* the cache is written last and only when that client returned a parcel.
Hit(point) ==
    /\ available /\ redisUp
    /\ coord_key(point.lat, point.lon) \in DOMAIN redis

Followed(t, first, second) ==
    \A j \in 1..Len(t) : t[j] = second => \E i \in 1..(j - 1) : t[i] = first

Regions == {"spain", "navarra", "euskadi"}

C12_LookupStep ==
    (resp'.op = "query_by_coordinates" /\ resp'.caller # None
     /\ resp'.status # 400)
    => LET point == resp'.pid
           t == trace'
           queried == {i \in 1..Len(t) : t[i] \in Regions}
       IN /\ available => t # <<>> /\ t[1] = "get_by_coordinates"
          /\ \A i \in 2..Len(t) : t[i] # "get_by_coordinates"
          /\ Hit(point)
             => /\ t = <<"get_by_coordinates">>
                /\ resp'.status = 200
                /\ resp'.body = redis[coord_key(point.lat, point.lon)]
                /\ redis' = redis
          /\ ~Hit(point)
             => /\ \E i \in 1..Len(t) : t[i] = "get_region"
                /\ \A r \in Regions : Followed(t, "get_region", r)
                /\ Cardinality(queried) <= 1
                /\ \A i \in queried : t[i] = get_region(point.lat, point.lon)
                /\ clients => queried # {}
                /\ \A j \in 1..Len(t) :
                      t[j] = "set_by_coordinates" => \E i \in queried : i < j
                /\ (\E i \in 1..Len(t) : t[i] = "set_by_coordinates")
                   <=> (available /\ resp'.status = 200)
                /\ resp'.status # 200 => redis' = redis

C12_LookupOrder == [][C12_LookupStep]_vars

\* a miss in Navarre answered 200: the cache was read, the region classified,
\* the Navarre client queried and the cache written, in that order
C12_Witness ==
    /\ resp.op = "query_by_coordinates" /\ resp.status = 200
    /\ trace = <<"get_by_coordinates", "get_region", "navarra",
                 "set_by_coordinates">>

\* a hit: only the cache was read
C12_WitnessHit ==
    /\ resp.op = "query_by_coordinates" /\ resp.status = 200
    /\ trace = <<"get_by_coordinates">>

\* C13 (SpecClients). In the Navarre and Euskadi clients no failed attempt is
\* fatal: after an attempt that ended in a timeout, a connection error, an
\* error status or a malformed response the next attempt is made, and the
\* client returns nothing only when every attempt was made and none gave a
\* parcel.
ClientOps == {"Navarra.query_by_coordinates", "Euskadi.query_by_coordinates"}

Tried(i) == \E k \in 1..Len(trace) : trace[k] = i

GaveParcel(response) ==
    response.features # <<>> /\ response.features[1].ref # ""

C13_NoAttemptFatal ==
    resp.op \in ClientOps
    => /\ \A i \in 1..(Len(resp.pid) - 1) :
             (Tried(i) /\ resp.pid[i].kind \in
                             FailureKinds \cup {"malformed_feature"})
             => Tried(i + 1)
       /\ resp.body = EmptyData
          => \A i \in 1..Len(resp.pid) : Tried(i) /\ ~GaveParcel(resp.pid[i])

\* C14 (SpecLookup). When the client of the classified region could not be
\* initialized, whether its class could not be imported or its SOAP client
\* could not be constructed, the lookup is answered 501 or 503 and not 404.
C14_ServiceUnavailable ==
    (resp.op = "query_by_coordinates"
     /\ \E i \in 1..Len(trace) : trace[i] = "get_region")
    => /\ ~clients => resp.status \in {501, 503}
       /\ (\E i \in 1..Len(trace) : trace[i] = "SOAP client not initialized")
          => resp.status \in {501, 503}

\* C15 (SpecClients). The Navarre client requests every feature type of its
\* list, and what it returns holds the candidates of all of them, the first
\* candidate found being the primary one.
RECURSIVE Candidates(_, _)
Candidates(responses, i) ==
    IF i > Len(responses) THEN <<>>
    ELSE responses[i].features \o Candidates(responses, i + 1)

C15_AllCandidates ==
    resp.op = "Navarra.query_by_coordinates"
    => /\ trace = [i \in 1..Len(resp.pid) |-> i]
       /\ resp.body # EmptyData
          => /\ resp.body["cadastralReference"]
                   = Candidates(resp.pid, 1)[1].ref
             /\ "candidates" \in DOMAIN resp.body

\* the Navarre and Euskadi clients, each WFS attempt answered in any way
NextClients ==
    \/ \E n \in 1..MaxTypes :
          \E responses \in [1..n -> NavarraResponses] :
             Idle /\ Navarra_query_by_coordinates(Pamplona, responses)
    \/ \E responses \in EuskadiAnswers :
          Idle /\ Euskadi_query_by_coordinates(Bilbao, responses)
    \/ Respond

SpecClients == Init /\ [][NextClients]_vars

\* the region router, called with points around the two bounding boxes
NextRegion ==
    \/ \E point \in RegionPoints \cup LookupPoints : Idle /\ GetRegion(point)
    \/ Respond

SpecRegion == Init /\ [][NextRegion]_vars

\* C16 (SpecRegion). Region classification with the bounding boxes: a point
\* with lon in (-2.5, -1.0) and lat in (42.0, 43.5) is "navarra", also when it
\* lies in the Euskadi box; a point with lon in (-3.5, -1.5) and lat in
\* (42.8, 43.6) that is not in the Navarre box is "euskadi"; any other point
\* is "spain".
Tenth == Deg \div 10

StrictlyInside(point, west, east, south, north) ==
    /\ west * Tenth < point.lon /\ point.lon < east * Tenth
    /\ south * Tenth < point.lat /\ point.lat < north * Tenth

C16_RegionClassification ==
    resp.op = "get_region"
    => LET navarre == StrictlyInside(resp.pid, -25, -10, 420, 435)
           euskadi == StrictlyInside(resp.pid, -35, -15, 428, 436)
       IN resp.body = IF navarre THEN "navarra"
                      ELSE IF euskadi THEN "euskadi"
                      ELSE "spain"

\* a point inside both boxes was classified
C16_Witness ==
    /\ resp.op = "get_region" /\ resp.body = "navarra"
    /\ StrictlyInside(resp.pid, -25, -10, 420, 435)
    /\ StrictlyInside(resp.pid, -35, -15, 428, 436)

\* the coordinate lookup at the edges of the accepted range: each coordinate
\* in turn 0.0001 degree outside a bound, on it, and well inside
EdgeLons == {-100001000, -10 * Deg, 5 * Deg, 50001000}

EdgeLats == {349999000, 35 * Deg, 45 * Deg, 450001000}

EdgeBodies ==
    {[kind |-> "point", lon |-> x, lat |-> Madrid.lat] : x \in EdgeLons}
    \cup {[kind |-> "point", lon |-> Madrid.lon, lat |-> y] : y \in EdgeLats}
    \cup {[kind |-> "point", lon |-> x, lat |-> y] :
             x \in {-100001000, -10 * Deg}, y \in {349999000, 35 * Deg}}

EdgeResults(body) ==
    {d \in ClientResults(get_region(body.lat, body.lon), body.lon, body.lat) :
        DOMAIN d \subseteq {"cadastralReference", "geometry"}}

NextEdges ==
    \/ \E req \in RestRequests, body \in EdgeBodies :
          Idle /\ \E cadastral_data \in EdgeResults(body),
                     initialized \in BOOLEAN :
                     query_by_coordinates(req, body, cadastral_data,
                                          initialized)
    \/ Idle /\ RedisFail
    \/ Idle /\ RedisRecover
    \/ Respond

SpecEdges == InitLookup /\ [][NextEdges]_vars

\* C17 (SpecEdges). Coordinate bounds validation: a longitude outside [-10, 5]
\* or a latitude outside [35, 45] is answered 400 with no cache read and no
\* client call, and a value on a bound is accepted.
OutOfBounds(point) ==
    \/ point.lon < -10 * Deg \/ point.lon > 5 * Deg
    \/ point.lat < 35 * Deg \/ point.lat > 45 * Deg

C17_BoundsValidation ==
    (resp.op = "query_by_coordinates" /\ resp.caller # None)
    => /\ OutOfBounds(resp.pid)
          => resp.status = 400 /\ trace = <<>> /\ resp.sent = <<>>
       /\ ~OutOfBounds(resp.pid)
          => resp.status # 400 /\ trace # <<>>

\* longitude -10 exactly was looked up
C17_Witness ==
    /\ resp.op = "query_by_coordinates" /\ resp.status = 200
    /\ resp.pid.lon = -10 * Deg
    /\ resp.sent # <<>>

\* the cache key of pairs of nearby coordinates
NextKeys ==
    \/ \E a \in KeyPoints, b \in KeyPoints : Idle /\ CoordKeys(a, b)
    \/ Respond

SpecKeys == Init /\ [][NextKeys]_vars

\* C18 (SpecKeys). Coordinate rounding: two coordinate pairs get the same
\* cache key when, for the latitude and for the longitude, both values lie
\* less than 0.0000005 from the same multiple of 0.000001 and, when that
\* multiple is zero, have the same sign; two values nearest to different
\* multiples get different keys.
Abs(x) == IF x < 0 THEN -x ELSE x

Multiples == {10 * m : m \in {-3703801, -3703800, -1, 0, 1,
                              40416799, 40416800, 40416801}}

SameStep(x, y) ==
    \E m \in Multiples :
       /\ Abs(x - m) < 5 /\ Abs(y - m) < 5
       /\ m = 0 => ((x < 0) <=> (y < 0))

OtherStep(x, y) ==
    \E m \in Multiples, n \in Multiples :
       m # n /\ Abs(x - m) < 5 /\ Abs(y - n) < 5

C18_CoordinateRounding ==
    resp.op = "_coord_key"
    => LET a == resp.pid[1]
           b == resp.pid[2]
       IN /\ (SameStep(a.lat, b.lat) /\ SameStep(a.lon, b.lon))
             => resp.body[1] = resp.body[2]
          /\ (OtherStep(a.lat, b.lat) \/ OtherStep(a.lon, b.lon))
             => resp.body[1] # resp.body[2]

\* two latitudes on either side of a multiple of 0.000001 got one key
C18_Witness ==
    /\ resp.op = "_coord_key"
    /\ resp.pid[1].lat = 404167996 /\ resp.pid[2].lat = 404168004
    /\ resp.pid[1].lon = resp.pid[2].lon
    /\ resp.body[1] = resp.body[2]

\* C18 as stated: two coordinate pairs whose values agree in sign and in
\* every digit up to the sixth decimal get the same key.
SameDigits(x, y) ==
    /\ (x < 0) <=> (y < 0)
    /\ Abs(x) \div 10 = Abs(y) \div 10

C18_AsStated ==
    resp.op = "_coord_key"
    => LET a == resp.pid[1]
           b == resp.pid[2]
       IN (SameDigits(a.lat, b.lat) /\ SameDigits(a.lon, b.lon))
          => resp.body[1] = resp.body[2]

\* the geometry requests of the Spanish State client
NextRefs ==
    \/ \E ref \in References, wfs \in WfsAnswers, initialized \in BOOLEAN :
          Idle /\ get_parcel_geometry(ref, wfs, initialized)
    \/ \E ref \in References : Idle /\ fetch_geometry_from_wfs(ref)
    \/ Respond

SpecRefs == Init /\ [][NextRefs]_vars

\* C19 (SpecRefs). 14-character reference normalization: every reference sent
\* as RC to Consulta_CPMRC or as the reference of a GetParcel query of the
\* INSPIRE WFS has exactly 14 characters, the first 14 of the reference
\* without its dashes, filled up with zeros on the right.
C19_Reference14 ==
    resp.op \in {"get_parcel_geometry", "_fetch_geometry_from_wfs"}
    => \A i \in 1..Len(resp.sent) :
          resp.sent[i].name \in {"RC", "REFCAT", "refcat"}
          => Len(resp.sent[i].value) = 14

\* the filter applied to lists of discovered names
NextTypes ==
    \/ Idle /\ \E feature_types \in TypeLists : FilterTypes(feature_types)
    \/ Respond

SpecTypes == Init /\ [][NextTypes]_vars

\* the names that contain a keyword of each list, whatever their case
ExcludedNames == {ft \in TypeNames : AnyIn(ft, excluded_keywords)}

PrimaryNames == {ft \in TypeNames : AnyIn(ft, primary_keywords)}

SecondaryNames == {ft \in TypeNames : AnyIn(ft, secondary_keywords)}

IsExcluded(ft) == ft \in ExcludedNames

IsPrimary(ft) == ft \in PrimaryNames \ ExcludedNames

IsSecondary(ft) == ft \in SecondaryNames \ (PrimaryNames \cup ExcludedNames)

\* C20 (SpecTypes). Feature-type filtering priority: the filtered list has no
\* name that contains an excluded keyword, no secondary match stands before a
\* primary match in it, and its primary matches, like its secondary matches,
\* are those of the input in the input's order.
C20_FilterPriority ==
    resp.op = "filter_cadastral_types"
    => /\ \A i \in 1..Len(resp.body) : ~IsExcluded(resp.body[i])
       /\ \A i, j \in 1..Len(resp.body) :
             IsSecondary(resp.body[i]) /\ IsPrimary(resp.body[j]) => j < i
       /\ SelectSeq(resp.body, IsPrimary) = SelectSeq(resp.pid, IsPrimary)
       /\ SelectSeq(resp.body, IsSecondary) = SelectSeq(resp.pid, IsSecondary)

\* the example of the claim
C20_Witness ==
    /\ resp.op = "filter_cadastral_types"
    /\ resp.pid = <<municipio_limite, CATAST_Pol_ParcelaUrba,
                    CP_CadastralParcel, catast_linea>>
    /\ resp.body = <<CATAST_Pol_ParcelaUrba, CP_CadastralParcel>>

\* a list with a secondary match before a primary one
C20_WitnessOrder ==
    /\ resp.op = "filter_cadastral_types"
    /\ resp.pid = <<Catast_Rustica, Parcela_TXT, CP_CadastralParcel>>
    /\ resp.body = <<CP_CadastralParcel, Catast_Rustica>>

\* the parcel store under the REST handlers and the synchronization together
StoreUpdates ==
    {("is_active" :> TRUE) @@ ("crop_type" :> "corn"),
     ("tenant_id" :> "tb") @@ ("orion_entity_id" :> P2) @@ ("geometry" :> Plot)}

StoreEntities == {e \in SyncEntities : e.id = P1 /\ e.tenant = Absent}

NextStore ==
    \/ \E req \in RestRequests, input \in CreateInputs, crop \in CreateCrops,
          db \in DbOutcomes : Idle /\ create_parcel(req, input, crop, Field, db)
    \/ \E req \in RestRequests, parcel_id \in PIds, data \in StoreUpdates,
          db \in DbOutcomes : Idle /\ update_parcel(req, parcel_id, data, db)
    \/ \E req \in RestRequests, parcel_id \in PIds, db \in DbOutcomes :
          Idle /\ delete_parcel(req, parcel_id, db)
    \/ \E entity \in StoreEntities, tenant_id \in Tenants, dbOk \in BOOLEAN :
          Idle /\ SyncParcel(entity, tenant_id, dbOk)
    \/ \E entity_id \in {P1}, dbOk \in BOOLEAN :
          Idle /\ delete_parcel_from_postgres(entity_id, dbOk)
    \/ Respond

SpecStore == Init /\ [][NextStore]_vars

\* C21 (SpecStore). area_hectares at insert and at sync time: the row a REST
\* creation inserted, and the row a synchronization inserted or updated, has
\* an area_hectares equal to the geodesic area of its geometry divided by
\* 10,000 (25,000 m2 gives 2.5), and not negative.
C21_AreaHectares ==
    /\ (resp.op = "create_parcel" /\ resp.status = 201)
       => /\ rows[resp.pid].area_hectares
             = Value(Hectares(rows[resp.pid].geometry))
          /\ rows[resp.pid].geometry = Field
             => rows[resp.pid].area_hectares = Value(25)
          /\ rows[resp.pid].area_hectares[1] >= 0
    /\ (resp.op = "sync_parcel_to_postgres" /\ resp.status = 1)
       => LET n == RowOfEntity(rows, resp.pid, Len(rows))
          IN /\ rows[n].area_hectares = Value(Hectares(rows[n].geometry))
             /\ rows[n].area_hectares[1] >= 0

\* the REST handlers that open a store connection
StoreHandlers ==
    {"list_parcels", "create_parcel", "get_parcel", "update_parcel",
     "delete_parcel", "request_ndvi_processing", "batch_request_ndvi"}

\* C22 (Spec). Connection release: a REST handler that opened a store
\* connection has closed it when it returns, whatever the path: success, a 400
\* rejection, a 404, or an exception.
C22_ConnectionClosed == resp.op \in StoreHandlers => ~resp.connOpen

\* the place of the first occurrence of id in the requested ids
RECURSIVE FirstIndex(_, _)
FirstIndex(ids, id) ==
    IF ids = <<>> THEN 1
    ELSE IF Head(ids) = id THEN 1
    ELSE 1 + FirstIndex(Tail(ids), id)

InRequestOrder(results, ids) ==
    \A i, j \in 1..Len(results) :
        i < j => FirstIndex(ids, results[i]) < FirstIndex(ids, results[j])

\* C23 (SpecNdvi). Per-item order of the batch-NDVI endpoint: the parcels are
\* forwarded, and the jobs and the errors of the response are listed, in the
\* order of the ids in the request.
C23_InputOrder ==
    (resp.op = "batch_request_ndvi" /\ resp.status \in {202, 207})
    => /\ InRequestOrder(resp.sent, resp.pid)
       /\ InRequestOrder(resp.body.jobs, resp.pid)
       /\ InRequestOrder(resp.body.errors, resp.pid)

\* coordinate lookups served concurrently
NextRace ==
    \/ \E t \in Threads, point \in RacePoints : LookupCheck(t, point)
    \/ \E t \in Threads :
          \E cadastral_data \in NavarraResults(Pamplona.lon, Pamplona.lat)
                                \cup NavarraResults(NearPamplona.lon,
                                                    NearPamplona.lat)
                                \cup {EmptyData} :
             LookupQuery(t, cadastral_data)
    \/ \E t \in Threads : LookupStore(t)
    \/ \E t \in Threads : LookupReturn(t)

SpecRace == InitLookup /\ [][NextRace]_vars

\* the lookups that missed the cache and got a parcel from the client
Looked(t) ==
    threads[t].pc \in {"found", "answered"} /\ threads[t].upstream # EmptyData

KeyOf(t) == coord_key(threads[t].point.lat, threads[t].point.lon)

\* a lookup that writes leaves the payload it returns under its key, and the
\* cache changes in no other way
C24_WriteStep ==
    /\ \A t \in Threads :
          (threads[t].pc = "found" /\ threads'[t].pc = "answered"
           /\ threads'[t].wrote)
          => /\ KeyOf(t) \in DOMAIN redis'
             /\ redis'[KeyOf(t)] = threads'[t].body
             /\ threads'[t].status = 200
    /\ redis' # redis
       => \E t \in Threads :
             /\ threads[t].pc = "found" /\ threads'[t].wrote
             /\ DOMAIN redis' = DOMAIN redis \cup {KeyOf(t)}
             /\ \A k \in DOMAIN redis \ {KeyOf(t)} : redis'[k] = redis[k]

\* two lookups in flight on one key, for the same coordinates and with the
\* same answer of the client, have the same payload
C24_SameAnswer ==
    \A t, u \in Threads :
        (Looked(t) /\ Looked(u) /\ threads[t].point = threads[u].point
         /\ threads[t].upstream = threads[u].upstream)
        => threads[t].body = threads[u].body

\* C24 (SpecRace). Two concurrent lookups on one cache key may both miss and
\* both write; each writes the payload it returns, so the entry that remains
\* is the payload of the lookup that wrote last; the payloads are equal when
\* the requests carry the same coordinates and the client gave both the same
\* answer.
C24_RaceOnKey == [](C24_SameAnswer) /\ [][C24_WriteStep]_vars

\* both lookups missed, both wrote, for the same point and the same answer
C24_Witness ==
    /\ \A t \in Threads : threads[t].pc = "answered" /\ threads[t].wrote
    /\ threads[1].point = threads[2].point
    /\ threads[1].upstream = threads[2].upstream
    /\ redis[KeyOf(1)] = threads[2].body

\* the claim as stated: whenever two lookups on one key both missed and both
\* wrote, the callers got the same payload and the entry equals it
C24_AsStated ==
    \A t, u \in Threads :
        (threads[t].pc = "answered" /\ threads[t].wrote
         /\ threads[u].pc = "answered" /\ threads[u].wrote
         /\ KeyOf(t) = KeyOf(u))
        => /\ threads[t].body = threads[u].body
           /\ redis[KeyOf(t)] = threads[t].body

\* calls of the two getters from concurrent threads
NextSingletons ==
    \/ \E t \in Threads, g \in Singletons : GetterTest(t, g)
    \/ \E t \in Threads : GetterConstruct(t)
    \/ \E t \in Threads : GetterReturn(t)
    \/ \E t \in Threads : GetterDone(t)

SpecSingletons == Init /\ [][NextSingletons]_vars

\* C25 (SpecSingletons). Singletons: whatever the interleaving of the calls
\* of a getter, one object at most is constructed for its global, and every
\* call that returned got that object.
C25_OneInstance ==
    \A g \in Singletons :
        /\ instances.constructed[g] <= 1
        /\ \A t \in Threads :
              (threads[t].pc = "returned" /\ threads[t].getter = g)
              => threads[t].got = 1

IsKept(ft) == ~IsExcluded(ft)

\* C26 (SpecTypes). Fallback of the feature-type filter: for a non-empty list
\* in which no name that passes the exclusion matches a primary or a secondary
\* keyword, the filter returns the names that pass the exclusion, in the
\* order of the list.
C26_FilterFallback ==
    (resp.op = "filter_cadastral_types" /\ resp.pid # <<>>
     /\ \A i \in 1..Len(resp.pid) :
           ~IsPrimary(resp.pid[i]) /\ ~IsSecondary(resp.pid[i]))
    => resp.body = SelectSeq(resp.pid, IsKept)

\* a list of an excluded name and names that match no keyword
C26_Witness ==
    /\ resp.op = "filter_cadastral_types"
    /\ resp.pid = <<Vias, municipio_limite, Vias>>
    /\ resp.body = <<Vias, Vias>>

\* extract_tenant_from_entity on entities with and without the two tenant
\* attributes, whose values may be null
TenantValues == {Absent, None, "ta", "tb"}

TenantIds == EntityIds \cup {"parcel-4"}

TenantEntities ==
    {Entity("AgriParcel", id, tenant, tenantId, "Polygon", "wheat", "true",
            "m", None) :
        id \in TenantIds, tenant \in TenantValues, tenantId \in TenantValues}

ExtractTenant(entity) ==
    /\ resp' = R("extract_tenant_from_entity", None, entity, 0,
                 extract_tenant_from_entity(entity), <<>>, FALSE)
    /\ UNCHANGED <<rows, now, rlsEnforced, auth, redis, redisUp, available,
                   clients, request, trace, threads, instances>>

NextTenant ==
    \/ Idle /\ \E entity \in TenantEntities : ExtractTenant(entity)
    \/ Respond

SpecTenant == Init /\ [][NextTenant]_vars

\* an attribute yields a value when it is there and its value is not null
Yields(attribute) == attribute \notin {Absent, None}

\* C27 (SpecTenant). Tenant of an entity: the value of the tenant or tenantId
\* attribute when one of them yields a value; otherwise the fourth
\* colon-delimited segment of the entity id; absent only when the id has no
\* fourth segment either.
C27_TenantOfEntity ==
    resp.op = "extract_tenant_from_entity"
    => LET entity == resp.pid
           parts == Split(entity.id)
       IN IF Yields(entity.tenant) THEN resp.body = entity.tenant
          ELSE IF Yields(entity.tenantId) THEN resp.body = entity.tenantId
          ELSE IF Len(parts) >= 4 THEN resp.body = parts[4]
          ELSE resp.body = None

\* the tenants a token names: its three claims and its groups
Claimed(token) ==
    {token.c1, token.c2, token.c3}
    \cup {GroupName(token.groups[i]) : i \in 1..Len(token.groups)}

\* C28 (SpecAuth). Identity-provider decorator: the handler runs on a token
\* whose signature was not verified only when gateway trust is enabled and
\* the X-Tenant-ID header carries a value; the token then decoded and was not
\* expired, and the tenant is the header's. In every other case the handler
\* runs only on a token that passed the full validation, with a tenant taken
\* from its claims.
C28_KeycloakDecorator ==
    (auth.mw = "require_keycloak_auth" /\ auth.res.ran)
    => LET req == auth.req
           trusted == auth.trust /\ Present(req.xTenant)
       IN /\ req.authz = "bearer"
          /\ trusted => /\ req.token.kind \in {"valid", "forged"}
                        /\ auth.res.tenant = req.xTenant
          /\ ~trusted => /\ req.token.kind = "valid"
                         /\ auth.res.tenant \in Claimed(req.token)
                         /\ Present(auth.res.tenant)

\* the handler ran on a forged token, under gateway trust and a tenant header
C28_Witness ==
    /\ auth.mw = "require_keycloak_auth" /\ auth.res.ran
    /\ auth.trust /\ auth.req.xTenant = "tx"
    /\ auth.req.token.kind = "forged"
    /\ auth.res.tenant = "tx"

\* the handler ran without gateway trust, on a verified token, with the
\* tenant of a group although the header named one
C28_WitnessFull ==
    /\ auth.mw = "require_keycloak_auth" /\ auth.res.ran
    /\ ~auth.trust /\ auth.req.xTenant = "tx"
    /\ auth.req.token.kind = "valid"
    /\ auth.res.tenant = "tb"

\* a synchronization call that has just succeeded on a row that was there
Resynced(n) ==
    /\ resp'.op = "sync_parcel_to_postgres" /\ resp'.status = 1
    /\ n = RowOfEntity(rows, resp'.pid, Len(rows))
    /\ n # 0

\* the synchronized fields of row n are those of the call
Overwritten(n) ==
    /\ rows'[n].crop_type = resp'.body
    /\ rows'[n].geometry = PolygonOf("Polygon")
    /\ rows'[n].ndvi_enabled
    /\ rows'[n].updated_at = now'

C29_Step ==
    /\ \A i \in 1..Len(rows) :
          ~rows[i].is_active => (i <= Len(rows') /\ ~rows'[i].is_active)
    /\ \A n \in 1..Len(rows) :
          (Resynced(n) /\ ~rows[n].is_active)
          => (Overwritten(n) /\ ~rows'[n].is_active)

\* C29 (SpecStore). A soft delete is never undone: no REST update or delete
\* and no synchronization call sets is_active of an inactive row back to true;
\* a synchronization of the entity id of an inactive row overwrites the
\* synchronized fields of the row and leaves it inactive.
C29_SoftDeleteStays == [][C29_Step]_vars

\* an entity synchronized again after its row was soft-deleted
C29_Witness ==
    /\ resp.op = "sync_parcel_to_postgres" /\ resp.status = 1
    /\ LET n == RowOfEntity(rows, resp.pid, Len(rows))
       IN /\ n # 0
          /\ ~rows[n].is_active
          /\ rows[n].updated_at = now
          /\ rows[n].crop_type = "corn"

\* a REST update that names is_active, accepted on a soft-deleted row
C29_WitnessUpdate ==
    /\ resp.op = "update_parcel" /\ resp.status = 200
    /\ "is_active" \in DOMAIN request
    /\ ~rows[resp.pid].is_active
    /\ rows[resp.pid].crop_type = "corn"

C30_Step ==
    /\ \A i \in 1..Len(rows) :
          /\ i <= Len(rows')
          /\ rows'[i].tenant_id = rows[i].tenant_id
          /\ rows'[i].orion_entity_id = rows[i].orion_entity_id
    /\ \A n \in 1..Len(rows) :
          (Resynced(n) /\ rows[n].tenant_id # resp'.caller)
          => Overwritten(n)

\* C30 (SpecStore). The tenant_id and orion_entity_id of a parcel row never
\* change after the insert: a REST update cannot set them, and a
\* synchronization call for an existing entity id under another tenant
\* overwrites the synchronized fields and leaves the row's tenant_id.
C30_TenantAndEntityFixed == [][C30_Step]_vars

\* an entity of tenant ta synchronized again under tenant tb
C30_Witness ==
    /\ resp.op = "sync_parcel_to_postgres" /\ resp.status = 1
    /\ resp.caller = "tb"
    /\ LET n == RowOfEntity(rows, resp.pid, Len(rows))
       IN /\ n # 0
          /\ rows[n].tenant_id = "ta"
          /\ rows[n].updated_at = now
          /\ rows[n].crop_type = resp.body

\* a REST update that names tenant_id and orion_entity_id, accepted
C30_WitnessUpdate ==
    /\ resp.op = "update_parcel" /\ resp.status = 200
    /\ "tenant_id" \in DOMAIN request
    /\ rows[resp.pid].tenant_id = resp.caller
    /\ rows[resp.pid].orion_entity_id # P2
    /\ rows[resp.pid].geometry = Plot

====
